---- MODULE Spec2Model ----
(***************************************************************************)
(* Model of the GPU driver of mgpusim (amd/driver/driver.go): the tick     *)
(* loop, command admission and completion, and the page-migration state    *)
(* machine, together with the GPUs, the MMU and the host program that      *)
(* surround it.                                                            *)
(*                                                                         *)
(* A Tick is one action: its sub-steps are operators from a state to a     *)
(* state, applied in the order of Driver.Tick.  A state st has three       *)
(* parts: st.d, the fields of the Driver; st.env, the ports' buffers and   *)
(* what the GPUs, the MMU and the host have done; st.h, a history of       *)
(* what was created, sent and acknowledged, kept for the properties.       *)
(***************************************************************************)
EXTENDS Integers, Sequences, FiniteSets, TLC

\* ---------------------------------------------------------------- bounds
NumGPUs == 2            \* number of RegisterGPU calls
NumQueues == 2          \* command queues created by the host
MaxCmds == 2            \* commands the host enqueues in a run
MaxMigrations == 2      \* migration requests the MMU issues in a run
MaxMixedMigrations == 1 \* the same, in a run in which the host enqueues commands
NumVAddrs == 2          \* distinct pages of the process
MaxCU == 3              \* largest CUCount a GPU is registered with
MaxSignals == 3         \* enqueue signals the host sends to the bridge thread
MaxStray == 1           \* launch responses a GPU sends that answer no request
NumMiddlewares == 2     \* middlewares registered with the driver

GPUIDs == 1..NumGPUs
QueueIDs == 1..NumQueues
VAddrs == 1..NumVAddrs

VARIABLES
  d,        \* the Driver
  env,      \* the ports and the components around the driver
  h         \* history

vars == <<d, env, h>>

\* --------------------------------------------------------------- helpers
RECURSIVE Flatten(_)
Flatten(ss) == IF ss = <<>> THEN <<>> ELSE Head(ss) \o Flatten(Tail(ss))

RECURSIVE Perms(_)
Perms(S) ==
  IF S = {} THEN {<<>>}
  ELSE UNION {{<<x>> \o p : p \in Perms(S \ {x})} : x \in S}

RECURSIVE Ascending(_)
Ascending(S) ==
  IF S = {} THEN <<>>
  ELSE LET m == CHOOSE x \in S : \A y \in S : x <= y
       IN <<m>> \o Ascending(S \ {m})

Range(s) == {s[i] : i \in 1..Len(s)}

Count(s, x) == Cardinality({i \in 1..Len(s) : s[i] = x})

SameElements(s, t) ==
  /\ Len(s) = Len(t)
  /\ \A x \in Range(s) \cup Range(t) : Count(s, x) = Count(t, x)

IsPrefix(s, t) == Len(s) <= Len(t) /\ \A i \in 1..Len(s) : s[i] = t[i]

\* uint64 counters: a value below zero stands for the wrapped value 2^64 + n
Dec64(n) == n - 1

\* ------------------------------------------------------ messages and kinds
MigKinds == {"RDMADrain", "Shootdown", "PageMigration", "GPURestart",
             "RDMARestart"}

ZeroCount == [k \in MigKinds |-> 0]

\* d.GPUs[i] with a 0-based index i is the command processor of GPU i+1
GPUs(i) == i + 1

\* d.RemotePMCPorts[i] with a 0-based index i is the PMC port of GPU i+1
RemotePMCPorts(i) == i + 1

\* an HsaKernelDispatchPacket: the grid and the workgroup size, as <<x, y, z>>
NewPacket(grid, wg) == [GridSize |-> grid, WorkgroupSize |-> wg]

\* no packet
NoPacket == NewPacket(<<>>, <<>>)

\* wgDist and gpuIndex are what the WGFilter closure of a request captures
Msg(kind, dst) ==
  [kind |-> kind, dst |-> dst, id |-> <<0, 0>>, pid |-> 0, vAddrs |-> <<>>,
   pmc |-> 0, rdPAddr |-> 0, wrPAddr |-> 0, pageSize |-> 0,
   packet |-> NoPacket, wgDist |-> <<>>, gpuIndex |-> 0]

NewLaunchKernelReq(dst, id, pid) ==
  [Msg("LaunchKernelReq", dst) EXCEPT !.id = id, !.pid = pid]

NewShootdownCommand(dst, vAddr, pid) ==
  [Msg("Shootdown", dst) EXCEPT !.vAddrs = vAddr, !.pid = pid]

\* the request with the two physical addresses exchanged
NewPageMigrationReqToCP_Swapped(dst, pmc, rd, wr, size) ==
  [Msg("PageMigration", dst) EXCEPT !.pmc = pmc, !.rdPAddr = wr,
                                    !.wrPAddr = rd, !.pageSize = size]

NewPageMigrationReqToCP(dst, pmc, rd, wr, size) ==
  [Msg("PageMigration", dst) EXCEPT !.pmc = pmc, !.rdPAddr = rd,
                                    !.wrPAddr = wr, !.pageSize = size]

RspKind(kind) ==
  CASE kind = "LaunchKernelReq" -> "LaunchKernelRsp"
    [] kind = "RDMADrain" -> "RDMADrainRsp"
    [] kind = "Shootdown" -> "ShootDownCompleteRsp"
    [] kind = "PageMigration" -> "PageMigrationRsp"
    [] kind = "GPURestart" -> "GPURestartRsp"
    [] kind = "RDMARestart" -> "RDMARestartRsp"

AckKind(kind) ==
  CASE kind = "RDMADrainRsp" -> "RDMADrain"
    [] kind = "ShootDownCompleteRsp" -> "Shootdown"
    [] kind = "PageMigrationRsp" -> "PageMigration"
    [] kind = "GPURestartRsp" -> "GPURestart"
    [] kind = "RDMARestartRsp" -> "RDMARestart"

\* currentPageMigrationReq = nil
NoReq == [id |-> 0, pid |-> 0, pageSize |-> 0, host |-> 0, accessing |-> <<>>,
          map |-> <<>>, src |-> "none", respondToTop |-> FALSE]

\* toSendToMMU = nil
NoRsp == [rspTo |-> 0, src |-> "none", dst |-> "none", vAddrs |-> <<>>,
          rspToTop |-> FALSE]

PageSize == 4096
ProcessPID == 1
MMUPort == "MMU"
DriverMMUPort == "Driver.MMU"

NewPageMigrationReqToDriver(accessing, map, host, respondToTop) ==
  [id |-> 0, pid |-> ProcessPID, pageSize |-> PageSize, host |-> host,
   accessing |-> accessing, map |-> map, src |-> MMUPort,
   respondToTop |-> respondToTop]

\* the requests the MMU issues, but for their ids: accessing GPUs,
\* GPUReqToVAddrMap, current host GPU of the pages, respond-to-top flag
MigrationShapes ==
  { \* one page moves to GPU 2, both GPUs access it
    NewPageMigrationReqToDriver(<<1, 2>>, (2 :> <<1>>), 1, TRUE),
    \* two pages move to GPU 1, only GPU 2 accesses them
    NewPageMigrationReqToDriver(<<2>>, (1 :> <<1, 2>>), 2, FALSE),
    \* each GPU asks for a page
    NewPageMigrationReqToDriver(<<1, 2>>, (1 :> <<1>> @@ 2 :> <<2>>), 1, FALSE),
    \* both GPUs ask for the same page
    NewPageMigrationReqToDriver(<<1>>, (1 :> <<2>> @@ 2 :> <<2>>), 2, TRUE),
    \* no GPU accesses the page
    NewPageMigrationReqToDriver(<<>>, (2 :> <<1>>), 1, TRUE),
    \* no GPU asks for a page
    NewPageMigrationReqToDriver(<<1, 2>>, <<>>, 1, FALSE),
    \* a GPU asks for no page
    NewPageMigrationReqToDriver(<<2>>, (1 :> <<>>), 1, TRUE) }

\* ------------------------------------------------------------------ Init
\* a sync.Mutex: unlocked, or locked by the bridge thread or by a thread
\* that executes runEngine
Unlocked == <<>>

BridgeThread == <<"runAsync">>

EngineThread(r) == <<"runEngine", r>>

\* the thread of the engine while it runs Driver.Tick, and the host thread
TickThread == <<"Tick">>

HostThread == <<"host">>

\* the device after the GPUs: a unified device of all of them
UnifiedDeviceID == NumGPUs + 1

\* the CUCount every GPU is registered with, unless a run chooses others
DefaultCUCount == 4 * 16

InitDriver ==
  [panicked |-> FALSE,
   numGPUs |-> NumGPUs,              \* len(d.GPUs) after the RegisterGPU calls
   queues |-> [q \in QueueIDs |->
                 [GPUID |-> ((q - 1) % NumGPUs) + 1, IsRunning |-> FALSE,
                  commands |-> <<>>]],
   devices |-> [i \in 0..NumGPUs + 1 |->
                  [CUCount |-> IF i \in GPUIDs THEN DefaultCUCount ELSE 0,
                   UnifiedGPUIDs |-> IF i = UnifiedDeviceID
                                     THEN [k \in GPUIDs |-> k] ELSE <<>>]],
   engineRunning |-> FALSE,
   engineRunningMutex |-> Unlocked,  \* Unlocked, or the thread that holds it
   engineMutex |-> Unlocked,
   middlewares |-> <<>>,             \* none registered, unless a run does
   contextMutex |-> Unlocked,
   queueMutex |-> Unlocked,          \* ctx.queueMutex of the one context
   l2Dirty |-> FALSE,
   requestsToSend |-> <<>>,
   migrationReqToSendToCP |-> <<>>,
   toSendToMMU |-> NoRsp,
   currentPageMigrationReq |-> NoReq,
   isCurrentlyHandlingMigrationReq |-> FALSE,
   isCurrentlyMigratingOnePage |-> FALSE,
   numRDMADrainACK |-> 0,
   numShootDownACK |-> 0,
   numPagesMigratingACK |-> 0,
   numRestartACK |-> 0,
   numRDMARestartACK |-> 0,
   pageTable |-> [v \in VAddrs |->
                    [PAddr |-> v, DeviceID |-> 1, IsMigrating |-> FALSE]],
   nextPAddr |-> NumVAddrs + 1]

InitEnv ==
  [gpuInflight |-> {},      \* requests delivered to a GPU and not yet answered
   gpuIncoming |-> <<>>,    \* gpuPort's incoming buffer
   mmuIncoming |-> <<>>,    \* mmuPort's incoming buffer
   mmuReceived |-> {},      \* ids of the requests whose response the MMU got
   numEnqueued |-> 0,       \* commands enqueued so far: the command ids
   enqueueSignal |-> 0,     \* signals sent to the bridge thread and not taken
   numSignals |-> 0,        \* signals sent so far
   driverStopped |-> FALSE, \* Terminate waits to hand over its message
   runAsync |-> "select",   \* where the bridge thread is in runAsync
   tickScheduled |-> FALSE, \* the engine holds a tick event for the driver
   runEngine |-> [r \in 1..MaxSignals |-> "none"],  \* the runEngine threads
   tickPC |-> "sendToGPUs", \* the statement of Tick the engine thread is at
   tickRsp |-> <<>>,        \* the LaunchKernelRsp it has retrieved, if any
   tickQueue |-> 0,         \* the queue findCommandByReqID has returned
   hostPC |-> "idle",       \* where the host thread is in an enqueue
   hostCmd |-> <<>>,        \* the queue and the type of that enqueue
   numStray |-> 0,          \* launch responses that answer no request sent
   numMigReqs |-> 0]        \* migration requests issued so far: their ids

InitHistory ==
  [sent |-> ZeroCount,      \* per kind: requests of the current migration sent
   acked |-> ZeroCount,     \* per kind: acks of the current migration handled
   prepared |-> {},         \* ids of the requests whose response was prepared
   accepted |-> 0,          \* migration requests accepted
   completed |-> 0,         \* migrations whose RDMA-restart phase ended
   enqueuedLog |-> [q \in QueueIDs |-> <<>>],   \* command ids, as enqueued
   dequeuedLog |-> [q \in QueueIDs |-> <<>>],   \* command ids, as dequeued
   issued |-> [c \in 1..MaxCmds |-> {}],        \* request ids per command
   answered |-> {},         \* launch requests whose response was handled
   cmdType |-> [c \in 1..MaxCmds |-> "none"],  \* type per command id
   launched |-> [c \in 1..MaxCmds |-> <<>>],   \* launch requests per command
   returned |-> [sendToGPUs |-> FALSE],         \* what the last Tick's steps returned
   offered |-> <<>>,        \* <<command id, middleware>> per offer of the last Tick
   reqs |-> <<>>]           \* the migration requests accepted, in order

Init ==
  /\ d = InitDriver
  /\ env = InitEnv
  /\ h = InitHistory

\* ------------------------------------------------- command queue (context)
NumCommand(q) == Len(q.commands)

Peek(q) == Head(q.commands)

Dequeue(q) == [q EXCEPT !.commands = Tail(q.commands)]

RemoveReq(cmd, reqID) ==
  [cmd EXCEPT !.reqs = SelectSeq(cmd.reqs, LAMBDA r : r # reqID)]

NewCommand(id, type, packet) ==
  [id |-> id, type |-> type, reqs |-> <<>>, packet |-> packet]

\* the state after the host thread has put a new command on queue q
EnqueueCmd(st, q, type, packet) ==
  LET id == st.env.numEnqueued + 1
  IN [st EXCEPT
        !.d.queues[q].commands = Append(@, NewCommand(id, type, packet)),
        !.env.numEnqueued = id,
        !.h.enqueuedLog[q] = Append(@, id),
        !.h.cmdType[id] = type]

\* the host thread enqueues a Noop or a kernel launch on a queue of a GPU
Enqueue(q, type) ==
  /\ ~d.panicked
  /\ d.queues[q].GPUID \in GPUIDs
  /\ env.numEnqueued < MaxCmds
  /\ env.numMigReqs <= MaxMixedMigrations
  /\ LET st == EnqueueCmd([d |-> d, env |-> env, h |-> h], q, type, NoPacket)
     IN /\ d' = st.d
        /\ env' = st.env
        /\ h' = st.h

\* the host thread enqueues a kernel launch on a queue of the unified device
EnqueueUnified(q, packet) ==
  /\ ~d.panicked
  /\ d.queues[q].GPUID = UnifiedDeviceID
  /\ env.numEnqueued < MaxCmds
  /\ LET st == EnqueueCmd([d |-> d, env |-> env, h |-> h], q,
                          "LaunchUnifiedMultiGPUKernel", packet)
     IN /\ d' = st.d
        /\ env' = st.env
        /\ h' = st.h

\* ------------------------------------------------------------ environment
\* the command processor that ends the copy of a page clears the migrating
\* flag of the page written at ToWriteToPhysicalAddress
PageMigrationDone(drv, m) ==
  IF m.kind # "PageMigration" THEN drv
  ELSE [drv EXCEPT
          !.pageTable =
             [v \in VAddrs |->
                IF drv.pageTable[v].PAddr = m.wrPAddr
                THEN [drv.pageTable[v] EXCEPT !.IsMigrating = FALSE]
                ELSE drv.pageTable[v]]]

\* a GPU answers one of the requests it has received
GPURespond(m) ==
  /\ ~d.panicked
  /\ m \in env.gpuInflight
  /\ env' = [env EXCEPT
               !.gpuInflight = @ \ {m},
               !.gpuIncoming = Append(@, [kind |-> RspKind(m.kind),
                                          src |-> m.dst, rspTo |-> m.id])]
  /\ d' = PageMigrationDone(d, m)
  /\ UNCHANGED h

\* the ids a launch response can name: of a request of a command, or of none
RspToIDs == {<<0, 0>>} \cup {<<c, 1>> : c \in 1..MaxCmds}

\* a GPU sends a LaunchKernelRsp that answers no request it has received
StrayLaunchRsp(g, id) ==
  /\ ~d.panicked
  /\ env.numStray < MaxStray
  /\ \A m \in env.gpuInflight : m.id # id
  /\ env' = [env EXCEPT
               !.numStray = @ + 1,
               !.gpuIncoming = Append(@, [kind |-> "LaunchKernelRsp",
                                          src |-> GPUs(g - 1), rspTo |-> id])]
  /\ UNCHANGED <<d, h>>

\* the MMU asks the driver to migrate pages
MMURequest(shape) ==
  /\ ~d.panicked
  /\ env.numMigReqs < MaxMigrations
  /\ env.numEnqueued > 0 => env.numMigReqs < MaxMixedMigrations
  /\ env' = [env EXCEPT
               !.numMigReqs = @ + 1,
               !.mmuIncoming = Append(@, [shape EXCEPT !.id = env.numMigReqs + 1])]
  /\ UNCHANGED <<d, h>>

\* ------------------------------------------------------------ Tick: sends
\* sendToGPUs giving up a request the port does not accept
sendToGPUs_DropOnFailure(st, ok) ==
  IF Len(st.d.requestsToSend) = 0
  THEN [st EXCEPT !.h.returned.sendToGPUs = FALSE]
  ELSE LET req == st.d.requestsToSend[1]
       IN IF ok
          THEN [st EXCEPT
                  !.d.requestsToSend = Tail(@),
                  !.env.gpuInflight = @ \cup {req},
                  !.h.returned.sendToGPUs = TRUE,
                  !.h.sent = IF req.kind \in MigKinds
                             THEN [@ EXCEPT ![req.kind] = @ + 1] ELSE @]
          ELSE [st EXCEPT !.d.requestsToSend = Tail(@),
                          !.h.returned.sendToGPUs = FALSE]

sendToGPUs(st, ok) ==
  IF Len(st.d.requestsToSend) = 0
  THEN [st EXCEPT !.h.returned.sendToGPUs = FALSE]
  ELSE LET req == st.d.requestsToSend[1]
       IN IF ok
          THEN [st EXCEPT
                  !.d.requestsToSend = Tail(@),
                  !.env.gpuInflight = @ \cup {req},
                  !.h.returned.sendToGPUs = TRUE,
                  !.h.sent = IF req.kind \in MigKinds
                             THEN [@ EXCEPT ![req.kind] = @ + 1] ELSE @]
          ELSE [st EXCEPT !.h.returned.sendToGPUs = FALSE]

sendToMMU(st, ok) ==
  IF st.d.toSendToMMU = NoRsp THEN st
  ELSE IF ok
       THEN [st EXCEPT
               !.d.toSendToMMU = NoRsp,
               !.env.mmuReceived = @ \cup {st.d.toSendToMMU.rspTo}]
       ELSE st

\* sendMigrationReqToCP without its check of isCurrentlyMigratingOnePage
CanSendMigrationReq_IgnoreBusy(drv) == Len(drv.migrationReqToSendToCP) # 0

CanSendMigrationReq(drv) ==
  /\ Len(drv.migrationReqToSendToCP) # 0
  /\ ~drv.isCurrentlyMigratingOnePage

sendMigrationReqToCP(st, ok) ==
  IF ~CanSendMigrationReq(st.d) THEN st
  ELSE LET req == st.d.migrationReqToSendToCP[1]
       IN IF ok
          THEN [st EXCEPT
                  !.d.migrationReqToSendToCP = Tail(@),
                  !.d.isCurrentlyMigratingOnePage = TRUE,
                  !.env.gpuInflight = @ \cup {req},
                  !.h.sent[req.kind] = @ + 1]
          ELSE st

\* ------------------------------------------------- Tick: command admission
\* cmd.Reqs = append(cmd.Reqs, req), for the command object cmd of the queue
AppendReq(commands, cmd, reqID) ==
  [i \in 1..Len(commands) |->
     IF commands[i].id = cmd.id
     THEN [commands[i] EXCEPT !.reqs = Append(commands[i].reqs, reqID)]
     ELSE commands[i]]

\* processLaunchKernelCommand without queue.IsRunning = true
processLaunchKernelCommand_NotRunning(st, cmd, q) ==
  LET queue == st.d.queues[q]
      reqID == <<cmd.id, Cardinality(st.h.issued[cmd.id]) + 1>>
      req == NewLaunchKernelReq(GPUs(queue.GPUID - 1), reqID, ProcessPID)
  IN [st EXCEPT
        !.d.queues[q].commands = AppendReq(queue.commands, cmd, reqID),
        !.d.requestsToSend = Append(@, req),
        !.d.l2Dirty = TRUE,
        !.h.issued[cmd.id] = @ \cup {reqID},
        !.h.launched[cmd.id] = Append(@, req)]

processLaunchKernelCommand(st, cmd, q) ==
  LET queue == st.d.queues[q]
      reqID == <<cmd.id, Cardinality(st.h.issued[cmd.id]) + 1>>
      req == NewLaunchKernelReq(GPUs(queue.GPUID - 1), reqID, ProcessPID)
  IN [st EXCEPT
        !.d.queues[q].IsRunning = TRUE,
        !.d.queues[q].commands = AppendReq(queue.commands, cmd, reqID),
        !.d.requestsToSend = Append(@, req),
        !.d.l2Dirty = TRUE,
        !.h.issued[cmd.id] = @ \cup {reqID},
        !.h.launched[cmd.id] = Append(@, req)]

\* processNoopCommand leaving the command in the queue
processNoopCommand_KeepsHead(st, cmd, q) == st

processNoopCommand(st, cmd, q) ==
  [st EXCEPT !.d.queues[q] = Dequeue(@),
             !.h.dequeuedLog[q] = Append(@, Peek(st.d.queues[q]).id)]

\* --------------------------------------------- unified multi-GPU launch
\* (size-1)/wgSize + 1 in uint32; the sizes of a dispatch packet are at
\* least 1 and the products below 2^31, so nothing wraps
NumWG(size, wgSize) == (size - 1) \div wgSize + 1

RECURSIVE SumCUCount(_, _)
SumCUCount(drv, devIDs) ==
  IF devIDs = <<>> THEN 0
  ELSE drv.devices[Head(devIDs)].CUCount + SumCUCount(drv, Tail(devIDs))

\* the workgroups of the first packet of the command
TotalWGCount(pkt) ==
  NumWG(pkt.GridSize[1], pkt.WorkgroupSize[1])
  * NumWG(pkt.GridSize[2], pkt.WorkgroupSize[2])
  * NumWG(pkt.GridSize[3], pkt.WorkgroupSize[3])

\* wgPerCU rounded up by adding one to the quotient
WGPerCU_QuotientPlusOne(totalWGCount, totalCUCount) ==
  totalWGCount \div totalCUCount + 1

WGPerCU(totalWGCount, totalCUCount) == (totalWGCount - 1) \div totalCUCount + 1

\* wgDist[0..i], with the indices of the Go slice
RECURSIVE WGDistUpTo(_, _, _, _)
WGDistUpTo(drv, actualGPUs, wgPerCU, i) ==
  IF i = 0 THEN (0 :> 0)
  ELSE LET prev == WGDistUpTo(drv, actualGPUs, wgPerCU, i - 1)
           cuCount == drv.devices[actualGPUs[i]].CUCount
       IN prev @@ (i :> prev[i - 1] + cuCount * wgPerCU)

\* the result of distributeWGToGPUs, or that it panics: an integer division
\* by zero, or "not all wg allocated"
distributeWGToGPUs(drv, queue, cmd) ==
  LET actualGPUs == drv.devices[queue.GPUID].UnifiedGPUIDs
      totalCUCount == SumCUCount(drv, actualGPUs)
      totalWGCount == TotalWGCount(cmd.packet)
  IN IF totalCUCount = 0 THEN [panic |-> TRUE, wgDist |-> <<>>]
     ELSE LET wgDist == WGDistUpTo(drv, actualGPUs,
                                   WGPerCU(totalWGCount, totalCUCount),
                                   Len(actualGPUs))
          IN [panic |-> wgDist[Len(actualGPUs)] < totalWGCount,
              wgDist |-> wgDist]

\* the WGFilter of a request with the upper end of its range included
WGFilter_Inclusive(req, pkt, wg) ==
  LET numWGX == NumWG(pkt.GridSize[1], pkt.WorkgroupSize[1])
      numWGY == NumWG(pkt.GridSize[2], pkt.WorkgroupSize[2])
      flattenedID == wg[3] * numWGX * numWGY + wg[2] * numWGX + wg[1]
  IN /\ flattenedID >= req.wgDist[req.gpuIndex]
     /\ flattenedID <= req.wgDist[req.gpuIndex + 1]

\* req.WGFilter(pkt, wg), for the workgroup wg = <<IDX, IDY, IDZ>>
WGFilter(req, pkt, wg) ==
  LET numWGX == NumWG(pkt.GridSize[1], pkt.WorkgroupSize[1])
      numWGY == NumWG(pkt.GridSize[2], pkt.WorkgroupSize[2])
      flattenedID == wg[3] * numWGX * numWGY + wg[2] * numWGX + wg[1]
  IN /\ flattenedID >= req.wgDist[req.gpuIndex]
     /\ flattenedID < req.wgDist[req.gpuIndex + 1]

\* the member has no workgroup to run
RangeIsEmpty_Never(wgDist, i) == FALSE

RangeIsEmpty(wgDist, i) == wgDist[i + 1] - wgDist[i] = 0

\* the loop of processUnifiedMultiGPULaunchKernelCommand from member i on
RECURSIVE LaunchOnMembers(_, _, _, _, _)
LaunchOnMembers(st, cmd, q, wgDist, i) ==
  LET queue == st.d.queues[q]
      members == st.d.devices[queue.GPUID].UnifiedGPUIDs
  IN IF i >= Len(members) THEN st
     ELSE IF RangeIsEmpty(wgDist, i)
     THEN LaunchOnMembers(st, cmd, q, wgDist, i + 1)
     ELSE LET gpuID == members[i + 1]
              reqID == <<cmd.id, Cardinality(st.h.issued[cmd.id]) + 1>>
              req == [NewLaunchKernelReq(GPUs(gpuID - 1), reqID, ProcessPID)
                        EXCEPT !.packet = cmd.packet, !.wgDist = wgDist,
                               !.gpuIndex = i]
          IN LaunchOnMembers(
               [st EXCEPT
                  !.d.queues[q].IsRunning = TRUE,
                  !.d.queues[q].commands = AppendReq(queue.commands, cmd, reqID),
                  !.d.requestsToSend = Append(@, req),
                  !.d.l2Dirty = TRUE,
                  !.h.issued[cmd.id] = @ \cup {reqID},
                  !.h.launched[cmd.id] = Append(@, req)],
               cmd, q, wgDist, i + 1)

processUnifiedMultiGPULaunchKernelCommand(st, cmd, q) ==
  LET dist == distributeWGToGPUs(st.d, st.d.queues[q], cmd)
  IN IF dist.panic THEN [st EXCEPT !.d.panicked = TRUE]
     ELSE LaunchOnMembers(st, cmd, q, dist.wgDist, 0)

\* ------------------------------------------------------- middlewares
\* the command types the driver leaves to its middlewares
ExtensionTypes == {"MemCopyH2D", "MemCopyD2H"}

\* a middleware that accepts the commands of these types and works on none
NewMiddleware(accepts) == [accepts |-> accepts, jobs |-> {}]

\* m.ProcessCommand(cmd, cmdQueue) of middleware i: it takes the command if
\* it is of a type it handles, and the queue runs until it is done with it
ProcessCommand(st, i, cmd, q) ==
  LET processed == cmd.type \in st.d.middlewares[i].accepts
      offered == [st EXCEPT !.h.offered = Append(@, <<cmd.id, i>>)]
  IN [processed |-> processed,
      st |-> IF processed
             THEN [offered EXCEPT !.d.queues[q].IsRunning = TRUE,
                                  !.d.middlewares[i].jobs = @ \cup {q}]
             ELSE offered]

\* the command offered to the first middleware as well when one has taken it
RECURSIVE processCommandWithMiddleware_OfferToAll(_, _, _, _)
processCommandWithMiddleware_OfferToAll(st, cmd, q, i) ==
  IF i > Len(st.d.middlewares) THEN st
  ELSE LET m == ProcessCommand(st, i, cmd, q)
       IN IF m.processed /\ i = 1
          THEN [m.st EXCEPT !.h.offered =
                              Append(@, <<cmd.id, Len(st.d.middlewares)>>)]
          ELSE IF m.processed THEN m.st
          ELSE processCommandWithMiddleware_OfferToAll(m.st, cmd, q, i + 1)

\* the loop of processCommandWithMiddleware from middleware i on
RECURSIVE processCommandWithMiddleware(_, _, _, _)
processCommandWithMiddleware(st, cmd, q, i) ==
  IF i > Len(st.d.middlewares) THEN st
  ELSE LET m == ProcessCommand(st, i, cmd, q)
       IN IF m.processed THEN m.st
          ELSE processCommandWithMiddleware(m.st, cmd, q, i + 1)

\* the queues of jobs, each with its command dequeued and the queue idle
RECURSIVE FinishJobs(_, _)
FinishJobs(st, jobs) ==
  IF jobs = {} THEN st
  ELSE LET q == CHOOSE x \in jobs : \A y \in jobs : x <= y
       IN FinishJobs(
            [st EXCEPT
               !.d.queues[q] = Dequeue([@ EXCEPT !.IsRunning = FALSE]),
               !.h.dequeuedLog[q] = Append(@, Peek(st.d.queues[q]).id)],
            jobs \ {q})

\* for _, mw := range d.middlewares { mw.Tick() }, from middleware i on: a
\* middleware ends the commands it has taken
RECURSIVE middlewaresTick(_, _)
middlewaresTick(st, i) ==
  IF i > Len(st.d.middlewares) THEN st
  ELSE middlewaresTick(
         [FinishJobs(st, st.d.middlewares[i].jobs) EXCEPT
            !.d.middlewares[i].jobs = {}],
         i + 1)

\* processOneCommand taking the newest command of the queue, not its head
processOneCommand_Newest(st, q) ==
  LET cmd == st.d.queues[q].commands[Len(st.d.queues[q].commands)]
  IN CASE cmd.type = "LaunchKernel" -> processLaunchKernelCommand(st, cmd, q)
       [] cmd.type = "Noop" -> processNoopCommand(st, cmd, q)
       [] cmd.type = "LaunchUnifiedMultiGPUKernel" ->
            processUnifiedMultiGPULaunchKernelCommand(st, cmd, q)
       [] OTHER -> processCommandWithMiddleware(st, cmd, q, 1)

processOneCommand(st, q) ==
  LET cmd == Peek(st.d.queues[q])
  IN CASE cmd.type = "LaunchKernel" -> processLaunchKernelCommand(st, cmd, q)
       [] cmd.type = "Noop" -> processNoopCommand(st, cmd, q)
       [] cmd.type = "LaunchUnifiedMultiGPUKernel" ->
            processUnifiedMultiGPULaunchKernelCommand(st, cmd, q)
       [] OTHER -> processCommandWithMiddleware(st, cmd, q, 1)

CanStartCommand(queue) ==
  /\ NumCommand(queue) # 0
  /\ ~queue.IsRunning

\* a queue served until its head command keeps it busy
RECURSIVE processNewCommandFromCmdQueue_UntilBusy(_, _)
processNewCommandFromCmdQueue_UntilBusy(st, q) ==
  IF CanStartCommand(st.d.queues[q])
  THEN processNewCommandFromCmdQueue_UntilBusy(processOneCommand(st, q), q)
  ELSE st

processNewCommandFromCmdQueue(st, q) ==
  IF CanStartCommand(st.d.queues[q]) THEN processOneCommand(st, q) ELSE st

\* the queues q..NumQueues of the context, visited in order
RECURSIVE processNewCommandFromContext(_, _)
processNewCommandFromContext(st, q) ==
  IF q > NumQueues \/ st.d.panicked THEN st
  ELSE processNewCommandFromContext(processNewCommandFromCmdQueue(st, q),
                                    q + 1)

\* command admission held back while a migration is handled
processNewCommand_NotWhileMigrating(st) ==
  IF st.d.isCurrentlyHandlingMigrationReq THEN st
  ELSE processNewCommandFromContext(st, 1)

processNewCommand(st) == processNewCommandFromContext(st, 1)

\* --------------------------------------------- Tick: launch kernel response
\* the queues whose head command has a request with this id
QueuesWithReq(drv, reqID) ==
  {q \in QueueIDs :
     /\ NumCommand(drv.queues[q]) # 0
     /\ reqID \in Range(Peek(drv.queues[q]).reqs)}

\* the first such queue in the order the queues are scanned
findCommandByReqID(drv, reqID) ==
  CHOOSE q \in QueuesWithReq(drv, reqID) :
    \A r \in QueuesWithReq(drv, reqID) : q <= r

\* the command taken to be complete at every response
CommandCompleted_Always(cmd) == TRUE

CommandCompleted(cmd) == Len(cmd.reqs) = 0

\* a response that matches no request dropped without a word
processLaunchKernelReturn_IgnoreUnknown(st, rsp) ==
  IF QueuesWithReq(st.d, rsp.rspTo) = {}
  THEN st
  ELSE LET q == findCommandByReqID(st.d, rsp.rspTo)
           cmd == RemoveReq(Peek(st.d.queues[q]), rsp.rspTo)
           removed == [st EXCEPT !.d.queues[q].commands[1] = cmd,
                                 !.h.answered = @ \cup {rsp.rspTo}]
       IN IF CommandCompleted(cmd)
          THEN [removed EXCEPT
                  !.d.queues[q] = Dequeue([@ EXCEPT !.IsRunning = FALSE]),
                  !.h.dequeuedLog[q] = Append(@, cmd.id)]
          ELSE removed

processLaunchKernelReturn(st, rsp) ==
  IF QueuesWithReq(st.d, rsp.rspTo) = {}
  THEN [st EXCEPT !.d.panicked = TRUE]
  ELSE LET q == findCommandByReqID(st.d, rsp.rspTo)
           cmd == RemoveReq(Peek(st.d.queues[q]), rsp.rspTo)
           removed == [st EXCEPT !.d.queues[q].commands[1] = cmd,
                                 !.h.answered = @ \cup {rsp.rspTo}]
       IN IF CommandCompleted(cmd)
          THEN [removed EXCEPT
                  !.d.queues[q] = Dequeue([@ EXCEPT !.IsRunning = FALSE]),
                  !.h.dequeuedLog[q] = Append(@, cmd.id)]
          ELSE removed

\* ------------------------------------------------- page migration: phases
\* the GPUs with an entry in GPUReqToVAddrMap, 0-based, in ascending order
findRequestingGPUs(migrationInfo) ==
  LET asc == Ascending({i \in 1..NumGPUs : i \in DOMAIN migrationInfo})
  IN [k \in 1..Len(asc) |-> asc[k] - 1]

\* the orders in which a Go map with these keys can be iterated
MapOrders(keys) == Perms(Range(keys))

DrainFanout(drv) == drv.numGPUs

initiateRDMADrain(st) ==
  [st EXCEPT
     !.d.requestsToSend =
        @ \o [i \in 1..st.d.numGPUs |-> Msg("RDMADrain", GPUs(i - 1))],
     !.d.numRDMADrainACK = @ + DrainFanout(st.d)]

\* parseFromMMU without its check of isCurrentlyHandlingMigrationReq
CanParseFromMMU_Always(drv) == TRUE

CanParseFromMMU(drv) == ~drv.isCurrentlyHandlingMigrationReq

parseFromMMU(st) ==
  IF ~CanParseFromMMU(st.d) THEN st
  ELSE IF st.env.mmuIncoming = <<>> THEN st
  ELSE LET req == Head(st.env.mmuIncoming)
       IN initiateRDMADrain(
            [st EXCEPT
               !.env.mmuIncoming = Tail(@),
               !.d.currentPageMigrationReq = req,
               !.d.isCurrentlyHandlingMigrationReq = TRUE,
               !.h.accepted = @ + 1,
               !.h.reqs = Append(@, req),
               !.h.sent = ZeroCount,
               !.h.acked = ZeroCount])

\* the v-addresses of the first GPU of the map only
ShootDownVAddrs_FirstEntry(migrationInfo) ==
  LET found == {i \in 1..NumGPUs : i \in DOMAIN migrationInfo}
  IN IF found = {} THEN <<>>
     ELSE migrationInfo[CHOOSE i \in found : \A j \in found : i <= j]

\* the v-addresses of all GPUs of the map, GPU 1 first
ShootDownVAddrs(migrationInfo) ==
  Flatten([i \in 1..NumGPUs |->
             IF i \in DOMAIN migrationInfo THEN migrationInfo[i] ELSE <<>>])

\* the shootdown acks counted per registered GPU
ShootDownFanout_AllGPUs(req) == NumGPUs

ShootDownFanout(req) == Len(req.accessing)

sendShootDownReqs(st) ==
  LET req == st.d.currentPageMigrationReq
      vAddr == ShootDownVAddrs(req.map)
      accessingGPUs == req.accessing
  IN [st EXCEPT
        !.d.numShootDownACK = ShootDownFanout(req),
        !.d.requestsToSend =
           @ \o [i \in 1..Len(accessingGPUs) |->
                   NewShootdownCommand(GPUs(accessingGPUs[i] - 1), vAddr,
                                       req.pid)]]

\* the drain phase taken to end one ack early
DrainCompleted_OneEarly(n) == n = 1

DrainCompleted(n) == n = 0

processRDMADrainRsp(st, rsp) ==
  LET st1 == [st EXCEPT !.d.numRDMADrainACK = Dec64(@)]
  IN IF DrainCompleted(st1.d.numRDMADrainACK)
     THEN sendShootDownReqs(st1) ELSE st1

\* the allocator reserves the next free frame of the device for the v-address
AllocatePageWithGivenVAddr(drv, deviceID, vAddr) ==
  [PAddr |-> drv.nextPAddr, DeviceID |-> deviceID, IsMigrating |-> FALSE]

\* the new page put on the device with the 0-based number of the GPU
preparePageForMigration_ZeroBased(drv, vAddr, gpuID) ==
  LET page == drv.pageTable[vAddr]
      oldPAddr == page.PAddr
      newPage == [AllocatePageWithGivenVAddr(drv, gpuID, vAddr) EXCEPT
                    !.DeviceID = gpuID, !.IsMigrating = TRUE]
  IN [drv |-> [drv EXCEPT !.pageTable[vAddr] = newPage,
                          !.nextPAddr = @ + 1],
      page |-> newPage, oldPAddr |-> oldPAddr]

\* the driver after the page table update, the new page and the old p-address
preparePageForMigration(drv, vAddr, gpuID) ==
  LET page == drv.pageTable[vAddr]
      oldPAddr == page.PAddr
      newPage == [AllocatePageWithGivenVAddr(drv, gpuID + 1, vAddr) EXCEPT
                    !.DeviceID = gpuID + 1, !.IsMigrating = TRUE]
  IN [drv |-> [drv EXCEPT !.pageTable[vAddr] = newPage,
                          !.nextPAddr = @ + 1],
      page |-> newPage, oldPAddr |-> oldPAddr]

\* the (gpuID, vAddr) pairs of pageVaddrs when its keys are visited in order
PagePairs(migrationInfo, order) ==
  Flatten([k \in 1..Len(order) |->
             [i \in 1..Len(migrationInfo[order[k] + 1]) |->
                <<order[k], migrationInfo[order[k] + 1][i]>>]])

\* the request naming the PMC port of the requesting GPU
MigrationReqFor_OwnPMCPort(cur, gpuID, prepared) ==
  NewPageMigrationReqToCP(
    GPUs(gpuID), RemotePMCPorts(gpuID),
    prepared.oldPAddr, prepared.page.PAddr, cur.pageSize)

\* the PageMigrationReqToCP for one page of requesting GPU gpuID (0-based)
MigrationReqFor(cur, gpuID, prepared) ==
  LET toRequestFromGPU == cur.host
      toRequestFromPMCPort == RemotePMCPorts(toRequestFromGPU - 1)
  IN NewPageMigrationReqToCP(
       GPUs(gpuID), toRequestFromPMCPort,
       prepared.oldPAddr, prepared.page.PAddr, cur.pageSize)

\* the loop over pageVaddrs of processShootdownCompleteRsp
RECURSIVE MigratePages(_, _)
MigratePages(st, pairs) ==
  IF pairs = <<>> THEN st
  ELSE LET gpuID == Head(pairs)[1]
           vAddr == Head(pairs)[2]
           cur == st.d.currentPageMigrationReq
           prepared == preparePageForMigration(st.d, vAddr, gpuID)
           req == MigrationReqFor(cur, gpuID, prepared)
       IN MigratePages(
            [st EXCEPT
               !.d = [prepared.drv EXCEPT
                        !.migrationReqToSendToCP = Append(@, req),
                        !.numPagesMigratingACK = @ + 1]],
            Tail(pairs))

ShootdownCompleted(n) == n = 0

\* a migration without pages ending when its shootdowns are acknowledged
processShootdownCompleteRsp_SkipEmpty(st, rsp, order) ==
  LET st1 == [st EXCEPT !.d.numShootDownACK = Dec64(@)]
      st2 == MigratePages(st1, PagePairs(st1.d.currentPageMigrationReq.map,
                                         order))
  IN IF ~ShootdownCompleted(st1.d.numShootDownACK) THEN st1
     ELSE IF st2.d.numPagesMigratingACK = 0
     THEN [st2 EXCEPT !.d.isCurrentlyHandlingMigrationReq = FALSE,
                      !.h.completed = @ + 1]
     ELSE st2

processShootdownCompleteRsp(st, rsp, order) ==
  LET st1 == [st EXCEPT !.d.numShootDownACK = Dec64(@)]
  IN IF ShootdownCompleted(st1.d.numShootDownACK)
     THEN MigratePages(st1, PagePairs(st1.d.currentPageMigrationReq.map, order))
     ELSE st1

\* a restart ack awaited from every registered GPU
RestartFanout_AllGPUs(req) == NumGPUs

RestartFanout(req) == Len(req.accessing)

prepareGPURestartReqs(st) ==
  LET accessingGPUs == st.d.currentPageMigrationReq.accessing
  IN [st EXCEPT
        !.d.requestsToSend =
           @ \o [i \in 1..Len(accessingGPUs) |->
                   Msg("GPURestart", GPUs(accessingGPUs[i] - 1))],
        !.d.numRestartACK = @ + RestartFanout(st.d.currentPageMigrationReq)]

\* the response listing the pages of one requesting GPU only
RspVAddrs_FirstOnly(migrationInfo, order) ==
  IF order = <<>> THEN <<>> ELSE migrationInfo[order[1] + 1]

\* the v-addresses of the response when pageVaddrs is iterated in this order
RspVAddrs(migrationInfo, order) ==
  Flatten([k \in 1..Len(order) |-> migrationInfo[order[k] + 1]])

NewPageMigrationRspFromDriver(src, dst, req) ==
  [rspTo |-> req.id, src |-> src, dst |-> dst, vAddrs |-> <<>>,
   rspToTop |-> FALSE]

MMURspFor(req, order) ==
  [NewPageMigrationRspFromDriver(DriverMMUPort, req.src, req) EXCEPT
     !.vAddrs = RspVAddrs(req.map, order),
     !.rspToTop = req.respondToTop]

preparePageMigrationRspToMMU(st, order) ==
  [st EXCEPT
     !.d.toSendToMMU = MMURspFor(st.d.currentPageMigrationReq, order),
     !.h.prepared = @ \cup {st.d.currentPageMigrationReq.id}]

\* the restart prepared after any page-migration ack
PagesCompleted_Always(n) == TRUE

PagesCompleted(n) == n = 0

processPageMigrationRspFromCP(st, rsp, order) ==
  LET st1 == [st EXCEPT !.d.numPagesMigratingACK = Dec64(@),
                        !.d.isCurrentlyMigratingOnePage = FALSE]
  IN IF PagesCompleted(st1.d.numPagesMigratingACK)
     THEN preparePageMigrationRspToMMU(prepareGPURestartReqs(st1), order)
     ELSE st1

RDMARestartFanout(drv) == drv.numGPUs

prepareRDMARestartReqs(st) ==
  [st EXCEPT
     !.d.requestsToSend =
        @ \o [i \in 1..st.d.numGPUs |-> Msg("RDMARestart", GPUs(i - 1))],
     !.d.numRDMARestartACK = @ + RDMARestartFanout(st.d)]

RestartCompleted(n) == n = 0

handleGPURestartRsp(st, rsp) ==
  LET st1 == [st EXCEPT !.d.numRestartACK = Dec64(@)]
  IN IF RestartCompleted(st1.d.numRestartACK)
     THEN prepareRDMARestartReqs(st1) ELSE st1

RDMARestartCompleted(n) == n = 0

processRDMARestartRspToDriver(st, rsp) ==
  LET st1 == [st EXCEPT !.d.numRDMARestartACK = Dec64(@)]
  IN IF RDMARestartCompleted(st1.d.numRDMARestartACK)
     THEN [st1 EXCEPT !.d.currentPageMigrationReq = NoReq,
                      !.d.isCurrentlyHandlingMigrationReq = FALSE,
                      !.h.completed = @ + 1]
     ELSE st1

\* ------------------------------------------------- Tick: one GPU response
processReturnReq(st, order) ==
  IF st.env.gpuIncoming = <<>> THEN st
  ELSE LET req == Head(st.env.gpuIncoming)
           st1 == [st EXCEPT
                     !.env.gpuIncoming = Tail(@),
                     !.h.acked = IF req.kind = "LaunchKernelRsp" THEN @
                                 ELSE [@ EXCEPT ![AckKind(req.kind)] = @ + 1]]
       IN CASE req.kind = "LaunchKernelRsp" ->
                 processLaunchKernelReturn(st1, req)
            [] req.kind = "RDMADrainRsp" -> processRDMADrainRsp(st1, req)
            [] req.kind = "ShootDownCompleteRsp" ->
                 processShootdownCompleteRsp(st1, req, order)
            [] req.kind = "PageMigrationRsp" ->
                 processPageMigrationRspFromCP(st1, req, order)
            [] req.kind = "RDMARestartRsp" ->
                 processRDMARestartRspToDriver(st1, req)
            [] req.kind = "GPURestartRsp" -> handleGPURestartRsp(st1, req)

\* ------------------------------------------------------------------ Tick
\* a sub-step of Tick, skipped once the simulation has panicked
Step(st, next) == IF st.d.panicked THEN st ELSE next

\* a Tick that handles what has come in before it sends
TickResult_InboundFirst(st, gpuOK, mmuOK, cpOK, order) ==
  LET s1 == processReturnReq([st EXCEPT !.h.offered = <<>>], order)
      s2 == Step(s1, processNewCommand(s1))
      s3 == Step(s2, parseFromMMU(s2))
      s4 == Step(s3, sendToGPUs(s3, gpuOK))
      s5 == Step(s4, sendToMMU(s4, mmuOK))
      s6 == Step(s5, middlewaresTick(sendMigrationReqToCP(s5, cpOK), 1))
  IN s6

\* the state after one Tick: gpuOK, mmuOK and cpOK tell whether the port
\* accepts the send of sendToGPUs, sendToMMU and sendMigrationReqToCP
TickResult(st, gpuOK, mmuOK, cpOK, order) ==
  LET s1 == sendToGPUs([st EXCEPT !.h.offered = <<>>], gpuOK)
      s2 == sendToMMU(s1, mmuOK)
      s3 == middlewaresTick(sendMigrationReqToCP(s2, cpOK), 1)
      s4 == processReturnReq(s3, order)
      s5 == Step(s4, processNewCommand(s4))
      s6 == Step(s5, parseFromMMU(s5))
  IN s6

\* what Tick returns: the madeProgress of its sub-steps, each as the
\* function returns it in the state the sub-step before it has left
madeProgress(st, gpuOK, mmuOK, cpOK, order) ==
  LET s1 == sendToGPUs(st, gpuOK)
      s2 == sendToMMU(s1, mmuOK)
      s3 == middlewaresTick(sendMigrationReqToCP(s2, cpOK), 1)
      s4 == processReturnReq(s3, order)
      s5 == Step(s4, processNewCommand(s4))
      mws == st.d.middlewares
      sentToGPUs == Len(st.d.requestsToSend) # 0 /\ gpuOK
      sentToMMU == s1.d.toSendToMMU # NoRsp /\ mmuOK
      sentMigrationReqToCP == CanSendMigrationReq(s2.d) /\ cpOK
      processedReturnReq == s3.env.gpuIncoming # <<>>
      middlewareTicked == \E i \in 1..Len(mws) : mws[i].jobs # {}
      processedNewCommand ==
         \E q \in QueueIDs :
            /\ CanStartCommand(s4.d.queues[q])
            /\ \/ Peek(s4.d.queues[q]).type \notin ExtensionTypes
               \/ \E i \in 1..Len(mws) :
                     Peek(s4.d.queues[q]).type \in mws[i].accepts
      parsedFromMMU == CanParseFromMMU(s5.d) /\ s5.env.mmuIncoming # <<>>
  IN \/ sentToGPUs
     \/ sentToMMU
     \/ sentMigrationReqToCP
     \/ middlewareTicked
     \/ processedReturnReq
     \/ processedNewCommand
     \/ parsedFromMMU

Tick(gpuOK, mmuOK, cpOK, order) ==
  /\ ~d.panicked
  /\ LET st == TickResult([d |-> d, env |-> env, h |-> h],
                          gpuOK, mmuOK, cpOK, order)
     IN /\ d' = st.d
        /\ env' = st.env
        /\ h' = st.h

\* ------------------------------------------------------------------ Next
\* a send that is attempted succeeds or fails; one that is not has no outcome
Outcomes(attempted) == IF attempted THEN BOOLEAN ELSE {TRUE}

Next ==
  \/ \E gpuOK \in Outcomes(Len(d.requestsToSend) # 0),
        mmuOK \in Outcomes(d.toSendToMMU # NoRsp),
        cpOK \in Outcomes(CanSendMigrationReq(d)) :
       \E order \in MapOrders(findRequestingGPUs(d.currentPageMigrationReq.map)) :
          Tick(gpuOK, mmuOK, cpOK, order)
  \/ \E q \in QueueIDs, type \in {"Noop", "LaunchKernel"} : Enqueue(q, type)
  \/ \E m \in env.gpuInflight : GPURespond(m)
  \/ \E shape \in MigrationShapes : MMURequest(shape)

Spec == Init /\ [][Next]_vars

\* ----------------------- migrations with and without registered GPUs
\* Run is called after NumGPUs RegisterGPU calls, or after none
InitRegistered ==
  /\ \E n \in {0, NumGPUs} : d = [InitDriver EXCEPT !.numGPUs = n]
  /\ env = InitEnv
  /\ h = InitHistory

NextMigrations ==
  \/ \E gpuOK \in Outcomes(Len(d.requestsToSend) # 0),
        mmuOK \in Outcomes(d.toSendToMMU # NoRsp),
        cpOK \in Outcomes(CanSendMigrationReq(d)) :
       \E order \in MapOrders(findRequestingGPUs(d.currentPageMigrationReq.map)) :
          Tick(gpuOK, mmuOK, cpOK, order)
  \/ \E m \in env.gpuInflight : GPURespond(m)
  \/ \E shape \in MigrationShapes : MMURequest(shape)

SpecRegistered == InitRegistered /\ [][NextMigrations]_vars

\* -------------------------------- migrations that can end, with fairness
\* the requests with an accessing GPU and a page asked for by a GPU
LiveShapes ==
  {shape \in MigrationShapes :
     /\ shape.accessing # <<>>
     /\ \E g \in DOMAIN shape.map : shape.map[g] # <<>>}

NextLive ==
  \/ \E gpuOK \in Outcomes(Len(d.requestsToSend) # 0),
        mmuOK \in Outcomes(d.toSendToMMU # NoRsp),
        cpOK \in Outcomes(CanSendMigrationReq(d)) :
       \E order \in MapOrders(findRequestingGPUs(d.currentPageMigrationReq.map)) :
          Tick(gpuOK, mmuOK, cpOK, order)
  \/ \E m \in env.gpuInflight : GPURespond(m)
  \/ \E shape \in LiveShapes : MMURequest(shape)

\* a Tick all of whose sends are accepted
TickAccepted ==
  \E order \in MapOrders(findRequestingGPUs(d.currentPageMigrationReq.map)) :
     Tick(TRUE, TRUE, TRUE, order)

\* ENABLED <<TickAccepted>>_vars, written out: such a Tick changes the state
TickAcceptedEnabled ==
  /\ ~d.panicked
  /\ \E order \in MapOrders(findRequestingGPUs(d.currentPageMigrationReq.map)) :
        LET st == [d |-> d, env |-> env, h |-> h]
        IN TickResult(st, TRUE, TRUE, TRUE, order) # st

\* each port accepts a send again and again and the driver is ticked while
\* a Tick makes progress: weak fairness of TickAccepted, which is
\* WF_vars(TickAccepted) with its ENABLED written out; and a GPU answers
\* every request it has received
SpecLive ==
  /\ Init
  /\ [][NextLive]_vars
  /\ ([]<>~TickAcceptedEnabled \/ []<><<TickAccepted>>_vars)
  /\ WF_vars(\E m \in env.gpuInflight : GPURespond(m))

\* ------------------------------- runs of the command queues, with fairness
NextQueues ==
  \/ \E gpuOK \in Outcomes(Len(d.requestsToSend) # 0) :
       Tick(gpuOK, TRUE, TRUE, <<>>)
  \/ \E q \in QueueIDs, type \in {"Noop", "LaunchKernel"} : Enqueue(q, type)
  \/ \E m \in env.gpuInflight : GPURespond(m)

\* the GPU port accepts a send again and again, the driver is ticked while
\* a Tick makes progress, and a GPU answers every request it has received
SpecQueues ==
  /\ Init
  /\ [][NextQueues]_vars
  /\ WF_vars(Tick(TRUE, TRUE, TRUE, <<>>))
  /\ WF_vars(\E m \in env.gpuInflight : GPURespond(m))

\* ------------------------------------------ runs with middlewares
\* NumMiddlewares middlewares are registered, each for any of the types
InitMiddleware ==
  /\ \E accepts \in [1..NumMiddlewares -> SUBSET ExtensionTypes] :
       d = [InitDriver EXCEPT
              !.middlewares = [i \in 1..NumMiddlewares |->
                                 NewMiddleware(accepts[i])]]
  /\ env = InitEnv
  /\ h = InitHistory

NextMiddleware ==
  \/ \E gpuOK \in Outcomes(Len(d.requestsToSend) # 0) :
       Tick(gpuOK, TRUE, TRUE, <<>>)
  \/ \E q \in QueueIDs, type \in {"Noop", "LaunchKernel"} \cup ExtensionTypes :
       Enqueue(q, type)
  \/ \E m \in env.gpuInflight : GPURespond(m)

SpecMiddleware == InitMiddleware /\ [][NextMiddleware]_vars

\* ------------------------- runs with launch responses nobody asked for
NextStray ==
  \/ \E gpuOK \in Outcomes(Len(d.requestsToSend) # 0) :
       Tick(gpuOK, TRUE, TRUE, <<>>)
  \/ \E q \in QueueIDs, type \in {"Noop", "LaunchKernel"} : Enqueue(q, type)
  \/ \E m \in env.gpuInflight : GPURespond(m)
  \/ \E g \in GPUIDs, id \in RspToIDs : StrayLaunchRsp(g, id)

SpecStray == Init /\ [][NextStray]_vars

\* ------------------- the engine thread and the host thread, by statement
\* the host thread starts an enqueue: it takes the queue lock of the context
Host_Lock(q, type) ==
  /\ ~d.panicked
  /\ env.hostPC = "idle"
  /\ env.numEnqueued < MaxCmds
  /\ d.queueMutex = Unlocked
  /\ d' = [d EXCEPT !.queueMutex = HostThread]
  /\ env' = [env EXCEPT !.hostPC = "append", !.hostCmd = <<q, type>>]
  /\ UNCHANGED h

\* the host thread puts the command on the queue
Host_Append ==
  /\ ~d.panicked
  /\ env.hostPC = "append"
  /\ LET st == EnqueueCmd([d |-> d, env |-> env, h |-> h],
                          env.hostCmd[1], env.hostCmd[2], NoPacket)
     IN /\ d' = st.d
        /\ env' = [st.env EXCEPT !.hostPC = "unlock"]
        /\ h' = st.h

\* the host thread releases the queue lock
Host_Unlock ==
  /\ ~d.panicked
  /\ env.hostPC = "unlock"
  /\ d' = [d EXCEPT !.queueMutex = Unlocked]
  /\ env' = [env EXCEPT !.hostPC = "idle", !.hostCmd = <<>>]
  /\ UNCHANGED h

\* the engine thread is at statement pc of a Tick
At(pc) == ~d.panicked /\ env.tickPC = pc

\* Tick: d.sendToGPUs(); sendToMMU and sendMigrationReqToCP have nothing to
\* send in these runs
Tick_sendToGPUs(gpuOK) ==
  /\ At("sendToGPUs")
  /\ LET st == sendToGPUs([d |-> d, env |-> env, h |-> h], gpuOK)
     IN /\ d' = st.d
        /\ env' = [st.env EXCEPT !.tickPC = "processReturnReq"]
        /\ h' = st.h

\* processReturnReq: PeekIncoming, and RetrieveIncoming of a LaunchKernelRsp
Tick_processReturnReq ==
  /\ At("processReturnReq")
  /\ IF env.gpuIncoming = <<>>
     THEN env' = [env EXCEPT !.tickPC = "processNewCommand"]
     ELSE env' = [env EXCEPT !.gpuIncoming = Tail(@),
                             !.tickRsp = Head(env.gpuIncoming),
                             !.tickPC = "find_LockContext"]
  /\ UNCHANGED <<d, h>>

\* findCommandByReqID: d.contextMutex.Lock()
find_LockContext ==
  /\ At("find_LockContext")
  /\ d.contextMutex = Unlocked
  /\ d' = [d EXCEPT !.contextMutex = TickThread]
  /\ env' = [env EXCEPT !.tickPC = "find_LockQueue"]
  /\ UNCHANGED h

\* findCommandByReqID: ctx.queueMutex.Lock()
find_LockQueue ==
  /\ At("find_LockQueue")
  /\ d.queueMutex = Unlocked
  /\ d' = [d EXCEPT !.queueMutex = TickThread]
  /\ env' = [env EXCEPT !.tickPC = "find_Scan"]
  /\ UNCHANGED h

\* findCommandByReqID: the loops over the queues and the requests
find_Scan ==
  /\ At("find_Scan")
  /\ IF QueuesWithReq(d, env.tickRsp.rspTo) = {}
     THEN /\ d' = [d EXCEPT !.panicked = TRUE]
          /\ env' = env
     ELSE /\ d' = d
          /\ env' = [env EXCEPT
                       !.tickQueue = findCommandByReqID(d, env.tickRsp.rspTo),
                       !.tickPC = "find_UnlockQueue"]
  /\ UNCHANGED h

\* findCommandByReqID: ctx.queueMutex.Unlock() before return r, cmd, q
find_UnlockQueue ==
  /\ At("find_UnlockQueue")
  /\ d' = [d EXCEPT !.queueMutex = Unlocked]
  /\ env' = [env EXCEPT !.tickPC = "find_UnlockContext"]
  /\ UNCHANGED h

\* findCommandByReqID: the deferred d.contextMutex.Unlock()
find_UnlockContext ==
  /\ At("find_UnlockContext")
  /\ d' = [d EXCEPT !.contextMutex = Unlocked]
  /\ env' = [env EXCEPT !.tickPC = "RemoveReq"]
  /\ UNCHANGED h

\* processLaunchKernelReturn: cmd.RemoveReq(req)
return_RemoveReq ==
  /\ At("RemoveReq")
  /\ LET q == env.tickQueue
     IN /\ d' = [d EXCEPT !.queues[q].commands[1] =
                            RemoveReq(Peek(d.queues[q]), env.tickRsp.rspTo)]
        /\ h' = [h EXCEPT !.answered = @ \cup {env.tickRsp.rspTo}]
  /\ env' = [env EXCEPT !.tickPC = "GetReqs"]

\* processLaunchKernelReturn: if len(cmd.GetReqs()) == 0
return_GetReqs ==
  /\ At("GetReqs")
  /\ env' = [env EXCEPT
               !.tickPC = IF CommandCompleted(Peek(d.queues[env.tickQueue]))
                          THEN "IsRunning" ELSE "processNewCommand"]
  /\ UNCHANGED <<d, h>>

\* processLaunchKernelReturn: cmdQueue.IsRunning = false
return_IsRunning ==
  /\ At("IsRunning")
  /\ d' = [d EXCEPT !.queues[env.tickQueue].IsRunning = FALSE]
  /\ env' = [env EXCEPT !.tickPC = "Dequeue"]
  /\ UNCHANGED h

\* processLaunchKernelReturn: cmdQueue.Dequeue()
return_Dequeue ==
  /\ At("Dequeue")
  /\ LET q == env.tickQueue
     IN /\ d' = [d EXCEPT !.queues[q] = Dequeue(@)]
        /\ h' = [h EXCEPT !.dequeuedLog[q] = Append(@, Peek(d.queues[q]).id)]
  /\ env' = [env EXCEPT !.tickPC = "processNewCommand"]

\* processNewCommand: d.contextMutex.Lock()
admit_LockContext ==
  /\ At("processNewCommand")
  /\ d.contextMutex = Unlocked
  /\ d' = [d EXCEPT !.contextMutex = TickThread]
  /\ env' = [env EXCEPT !.tickPC = "admit_LockQueue", !.tickRsp = <<>>,
                        !.tickQueue = 0]
  /\ UNCHANGED h

\* processNewCommandFromContext: ctx.queueMutex.Lock()
admit_LockQueue ==
  /\ At("admit_LockQueue")
  /\ d.queueMutex = Unlocked
  /\ d' = [d EXCEPT !.queueMutex = TickThread]
  /\ env' = [env EXCEPT !.tickPC = "admit_Queues"]
  /\ UNCHANGED h

\* processNewCommandFromContext: the loop over ctx.queues
admit_Queues ==
  /\ At("admit_Queues")
  /\ LET st == processNewCommandFromContext([d |-> d, env |-> env, h |-> h], 1)
     IN /\ d' = st.d
        /\ env' = [st.env EXCEPT !.tickPC = "admit_UnlockQueue"]
        /\ h' = st.h

\* processNewCommandFromContext: ctx.queueMutex.Unlock()
admit_UnlockQueue ==
  /\ At("admit_UnlockQueue")
  /\ d' = [d EXCEPT !.queueMutex = Unlocked]
  /\ env' = [env EXCEPT !.tickPC = "admit_UnlockContext"]
  /\ UNCHANGED h

\* processNewCommand: d.contextMutex.Unlock(); parseFromMMU finds no message
\* and Tick returns
admit_UnlockContext ==
  /\ At("admit_UnlockContext")
  /\ d' = [d EXCEPT !.contextMutex = Unlocked]
  /\ env' = [env EXCEPT !.tickPC = "sendToGPUs"]
  /\ UNCHANGED h

NextLocks ==
  \/ \E q \in QueueIDs, type \in {"Noop", "LaunchKernel"} : Host_Lock(q, type)
  \/ Host_Append
  \/ Host_Unlock
  \/ \E gpuOK \in Outcomes(Len(d.requestsToSend) # 0) : Tick_sendToGPUs(gpuOK)
  \/ Tick_processReturnReq
  \/ find_LockContext
  \/ find_LockQueue
  \/ find_Scan
  \/ find_UnlockQueue
  \/ find_UnlockContext
  \/ return_RemoveReq
  \/ return_GetReqs
  \/ return_IsRunning
  \/ return_Dequeue
  \/ admit_LockContext
  \/ admit_LockQueue
  \/ admit_Queues
  \/ admit_UnlockQueue
  \/ admit_UnlockContext
  \/ \E m \in env.gpuInflight : GPURespond(m)

SpecLocks == Init /\ [][NextLocks]_vars

\* ------------------------------------- the bridge thread and engine runs
\* the host thread signals an enqueue
SendEnqueueSignal ==
  /\ env.numSignals < MaxSignals
  /\ env' = [env EXCEPT !.numSignals = @ + 1, !.enqueueSignal = @ + 1]
  /\ UNCHANGED <<d, h>>

\* the host thread calls Terminate
Terminate ==
  /\ ~env.driverStopped
  /\ env.runAsync # "returned"
  /\ env' = [env EXCEPT !.driverStopped = TRUE]
  /\ UNCHANGED <<d, h>>

\* case <-d.driverStopped: return
runAsync_Stop ==
  /\ env.runAsync = "select"
  /\ env.driverStopped
  /\ env' = [env EXCEPT !.runAsync = "returned", !.driverStopped = FALSE]
  /\ UNCHANGED <<d, h>>

\* case <-d.enqueueSignal, up to d.TickLater and d.Engine.Continue
runAsync_Signal ==
  /\ env.runAsync = "select"
  /\ env.enqueueSignal > 0
  /\ env' = [env EXCEPT !.enqueueSignal = @ - 1, !.runAsync = "lock",
                         !.tickScheduled = TRUE]
  /\ UNCHANGED <<d, h>>

\* d.engineRunningMutex.Lock()
runAsync_Lock ==
  /\ env.runAsync = "lock"
  /\ d.engineRunningMutex = Unlocked
  /\ d' = [d EXCEPT !.engineRunningMutex = BridgeThread]
  /\ env' = [env EXCEPT !.runAsync = "check"]
  /\ UNCHANGED h

\* the bridge thread starting a run whatever the flag says
ShouldStartRun_Always(drv) == TRUE

\* if d.engineRunning { ... continue }
ShouldStartRun(drv) == ~drv.engineRunning

\* the test of d.engineRunning, and d.engineRunning = true
runAsync_Check ==
  /\ env.runAsync = "check"
  /\ IF ShouldStartRun(d)
     THEN /\ d' = [d EXCEPT !.engineRunning = TRUE]
          /\ env' = [env EXCEPT !.runAsync = "go"]
     ELSE /\ d' = [d EXCEPT !.engineRunningMutex = Unlocked]
          /\ env' = [env EXCEPT !.runAsync = "select"]
  /\ UNCHANGED h

\* the runEngine threads that have not been started
FreeThreads == {r \in 1..MaxSignals : env.runEngine[r] = "none"}

\* go d.runEngine()
runAsync_Go ==
  /\ env.runAsync = "go"
  /\ FreeThreads # {}
  /\ LET r == CHOOSE x \in FreeThreads : \A y \in FreeThreads : x <= y
     IN env' = [env EXCEPT !.runEngine[r] = "lockEngine", !.runAsync = "unlock"]
  /\ UNCHANGED <<d, h>>

\* d.engineRunningMutex.Unlock()
runAsync_Unlock ==
  /\ env.runAsync = "unlock"
  /\ d' = [d EXCEPT !.engineRunningMutex = Unlocked]
  /\ env' = [env EXCEPT !.runAsync = "select"]
  /\ UNCHANGED h

\* d.engineMutex.Lock()
runEngine_LockEngine(r) ==
  /\ env.runEngine[r] = "lockEngine"
  /\ d.engineMutex = Unlocked
  /\ d' = [d EXCEPT !.engineMutex = EngineThread(r)]
  /\ env' = [env EXCEPT !.runEngine[r] = "run"]
  /\ UNCHANGED h

\* d.Engine.Run() executes the tick event scheduled for the driver
runEngine_Tick(r) ==
  /\ env.runEngine[r] = "run"
  /\ env.tickScheduled
  /\ env' = [env EXCEPT !.tickScheduled = FALSE]
  /\ UNCHANGED <<d, h>>

\* d.Engine.Run() returns, without an error, when no event is left
runEngine_Return(r) ==
  /\ env.runEngine[r] = "run"
  /\ ~env.tickScheduled
  /\ env' = [env EXCEPT !.runEngine[r] = "lockFlag"]
  /\ UNCHANGED <<d, h>>

\* d.engineRunningMutex.Lock()
runEngine_LockFlag(r) ==
  /\ env.runEngine[r] = "lockFlag"
  /\ d.engineRunningMutex = Unlocked
  /\ d' = [d EXCEPT !.engineRunningMutex = EngineThread(r)]
  /\ env' = [env EXCEPT !.runEngine[r] = "clear"]
  /\ UNCHANGED h

\* d.engineRunning = false
runEngine_Clear(r) ==
  /\ env.runEngine[r] = "clear"
  /\ d' = [d EXCEPT !.engineRunning = FALSE]
  /\ env' = [env EXCEPT !.runEngine[r] = "unlockFlag"]
  /\ UNCHANGED h

\* d.engineRunningMutex.Unlock()
runEngine_UnlockFlag(r) ==
  /\ env.runEngine[r] = "unlockFlag"
  /\ d' = [d EXCEPT !.engineRunningMutex = Unlocked]
  /\ env' = [env EXCEPT !.runEngine[r] = "unlockEngine"]
  /\ UNCHANGED h

\* the deferred d.engineMutex.Unlock()
runEngine_UnlockEngine(r) ==
  /\ env.runEngine[r] = "unlockEngine"
  /\ d' = [d EXCEPT !.engineMutex = Unlocked]
  /\ env' = [env EXCEPT !.runEngine[r] = "done"]
  /\ UNCHANGED h

runAsync ==
  \/ runAsync_Stop
  \/ runAsync_Signal
  \/ runAsync_Lock
  \/ runAsync_Check
  \/ runAsync_Go
  \/ runAsync_Unlock

runEngine(r) ==
  \/ runEngine_LockEngine(r)
  \/ runEngine_Tick(r)
  \/ runEngine_Return(r)
  \/ runEngine_LockFlag(r)
  \/ runEngine_Clear(r)
  \/ runEngine_UnlockFlag(r)
  \/ runEngine_UnlockEngine(r)

NextBridge ==
  \/ SendEnqueueSignal
  \/ Terminate
  \/ runAsync
  \/ \E r \in 1..MaxSignals : runEngine(r)

SpecBridge == Init /\ [][NextBridge]_vars

\* the Go scheduler lets the bridge thread and every started runEngine
\* thread take its next step; the host is free to send no further signal
SpecBridgeFair ==
  /\ SpecBridge
  /\ WF_vars(runAsync)
  /\ \A r \in 1..MaxSignals : WF_vars(runEngine(r))

\* ------------------------------------------- runs with a unified device
\* the CUCount a GPU can be registered with
CUCounts == 0..MaxCU

\* the dispatch packets of the unified launches
Packets ==
  { \* 8 workgroups in a row
    NewPacket(<<8, 1, 1>>, <<1, 1, 1>>),
    \* 2 x 2 x 2 workgroups
    NewPacket(<<4, 4, 2>>, <<2, 2, 1>>),
    \* 3 x 2 workgroups, the last of a row and of a column not full
    NewPacket(<<5, 3, 1>>, <<2, 2, 1>>),
    \* a single workgroup
    NewPacket(<<1, 1, 1>>, <<1, 1, 1>>) }

\* the GPUs are registered with any CUCount; the first queue is a queue of
\* the unified device of all GPUs
InitUnified ==
  /\ \E cus \in [GPUIDs -> CUCounts] :
       d = [InitDriver EXCEPT
              !.devices = [i \in 0..NumGPUs + 1 |->
                             IF i \in GPUIDs
                             THEN [@[i] EXCEPT !.CUCount = cus[i]] ELSE @[i]],
              !.queues[1].GPUID = UnifiedDeviceID]
  /\ env = InitEnv
  /\ h = InitHistory

NextUnified ==
  \/ \E gpuOK \in Outcomes(Len(d.requestsToSend) # 0) :
       Tick(gpuOK, TRUE, TRUE, <<>>)
  \/ \E q \in QueueIDs, type \in {"Noop", "LaunchKernel"} : Enqueue(q, type)
  \/ \E q \in QueueIDs, packet \in Packets : EnqueueUnified(q, packet)
  \/ \E m \in env.gpuInflight : GPURespond(m)

SpecUnified == InitUnified /\ [][NextUnified]_vars

\* ============================================================ properties
\* ---------------------------------------------------------------- queues
\* the requests of a command that were created and not yet answered
Outstanding(c) == h.issued[c] \ h.answered

\* the commands dequeued from any queue
DequeuedCmds == UNION {Range(h.dequeuedLog[q]) : q \in QueueIDs}

\* position of command c in the order of enqueueing on queue q
Position(q, c) == CHOOSE i \in 1..Len(h.enqueuedLog[q]) : h.enqueuedLog[q][i] = c

\* C1: for every queue, only the head command can have outstanding requests
\* and the queue is running exactly when it has; a command that was
\* dequeued has no outstanding request, and was a Noop if it never had one.
C1_OneInFlightAtHead ==
  /\ \A q \in QueueIDs :
       LET cmds == d.queues[q].commands
       IN /\ \A i \in 2..Len(cmds) :
               cmds[i].reqs = <<>> /\ h.issued[cmds[i].id] = {}
          /\ d.queues[q].IsRunning <=> (Len(cmds) > 0 /\ cmds[1].reqs # <<>>)
          /\ Len(cmds) > 0 => Range(cmds[1].reqs) = Outstanding(cmds[1].id)
  /\ \A c \in DequeuedCmds :
       /\ Outstanding(c) = {}
       /\ h.issued[c] = {} => h.cmdType[c] = "Noop"

\* a launch was dequeued after its answer while a later command waits
C1_Witness ==
  \E q \in QueueIDs :
     /\ Len(h.dequeuedLog[q]) > 0
     /\ h.issued[h.dequeuedLog[q][1]] # {}
     /\ Len(d.queues[q].commands) > 0
     /\ d.queues[q].IsRunning

\* C2: on every queue the commands are dequeued in the order of enqueueing,
\* and a command has a request only if every command enqueued before it on
\* its queue has been dequeued.
C2_QueueFIFO ==
  \A q \in QueueIDs :
     /\ IsPrefix(h.dequeuedLog[q], h.enqueuedLog[q])
     /\ \A c \in Range(h.enqueuedLog[q]) :
          h.issued[c] # {} => Position(q, c) <= Len(h.dequeuedLog[q]) + 1

\* two launches on one queue: the second has its request, the first is gone
C2_Witness ==
  \E q \in QueueIDs :
     /\ Len(h.enqueuedLog[q]) >= 2
     /\ h.issued[h.enqueuedLog[q][1]] # {}
     /\ h.issued[h.enqueuedLog[q][2]] # {}
     /\ Len(h.dequeuedLog[q]) = 1

\* ------------------------------------------------------------- migration
Handling == d.isCurrentlyHandlingMigrationReq

Cur == d.currentPageMigrationReq

\* every v-address of every entry of a GPUReqToVAddrMap
AllVAddrs(map) ==
  LET keys == Ascending(DOMAIN map)
  IN Flatten([k \in 1..Len(keys) |-> map[keys[k]]])

TotalPages(req) == Len(AllVAddrs(req.map))

\* the requests of a kind that wait in the driver, are at a GPU, or whose
\* answer waits in the GPU port
Waiting(kind) ==
  Cardinality({i \in 1..Len(d.requestsToSend) : d.requestsToSend[i].kind = kind})
  + Cardinality({i \in 1..Len(d.migrationReqToSendToCP) :
                   d.migrationReqToSendToCP[i].kind = kind})

InFlight(kind) ==
  Cardinality({m \in env.gpuInflight : m.kind = kind})
  + Cardinality({i \in 1..Len(env.gpuIncoming) :
                   env.gpuIncoming[i].kind = RspKind(kind)})

Pending(kind) == Waiting(kind) + InFlight(kind)

\* the requests of a kind the current migration has created so far
Created(kind) == Pending(kind) + h.acked[kind]

Counter(kind) ==
  CASE kind = "RDMADrain" -> d.numRDMADrainACK
    [] kind = "Shootdown" -> d.numShootDownACK
    [] kind = "PageMigration" -> d.numPagesMigratingACK
    [] kind = "GPURestart" -> d.numRestartACK
    [] kind = "RDMARestart" -> d.numRDMARestartACK

\* the size of a phase's fanout, as the specification gives it
Fanout(kind, req) ==
  CASE kind = "RDMADrain" -> NumGPUs
    [] kind = "Shootdown" -> Len(req.accessing)
    [] kind = "PageMigration" -> TotalPages(req)
    [] kind = "GPURestart" -> Len(req.accessing)
    [] kind = "RDMARestart" -> NumGPUs

PrevPhase(kind) ==
  CASE kind = "RDMADrain" -> "RDMARestart"
    [] kind = "Shootdown" -> "RDMADrain"
    [] kind = "PageMigration" -> "Shootdown"
    [] kind = "GPURestart" -> "PageMigration"
    [] kind = "RDMARestart" -> "GPURestart"

\* every ack of the phase has been handled, and there was one to handle
PhaseAcked(kind) ==
  /\ Handling
  /\ Fanout(kind, Cur) > 0
  /\ h.acked[kind] = Fanout(kind, Cur)

\* the machine has entered the phase
Entered(kind) ==
  IF kind = "RDMADrain" THEN Handling ELSE PhaseAcked(PrevPhase(kind))

C3_Inbox ==
  /\ h.accepted - h.completed \in {0, 1}
  /\ Handling <=> h.accepted - h.completed = 1
  /\ Handling => Cur.id = h.accepted
  /\ h.accepted + Len(env.mmuIncoming) = env.numMigReqs

C3_Step ==
  (Handling /\ h'.completed = h.completed) =>
     /\ h'.accepted = h.accepted
     /\ d'.currentPageMigrationReq = Cur
     /\ IsPrefix(env.mmuIncoming, env'.mmuIncoming)

\* C3: at most one migration request is being handled, and a step that
\* starts while one is handled and does not end it takes nothing from the
\* MMU port: the requests in the inbox stay, in order, and none is accepted.
C3_OneMigrationAtATime == []C3_Inbox /\ [][C3_Step]_vars

\* a second request waits in the inbox while the first is in its last phase
C3_Witness ==
  /\ Handling
  /\ Len(env.mmuIncoming) > 0
  /\ h.acked["RDMARestart"] > 0

\* the state after two ticks in which no send succeeds
TwoTicks(st, o1, o2) ==
  TickResult(TickResult(st, FALSE, FALSE, FALSE, o1), FALSE, FALSE, FALSE, o2)

\* the two answers at the head of the GPU port, in the other order
Swapped(st) ==
  [st EXCEPT !.env.gpuIncoming =
     <<@[2], @[1]>> \o SubSeq(@, 3, Len(@))]

\* two acks of one phase from different GPUs wait at the head of the GPU port
TwoAcksWait ==
  /\ Len(env.gpuIncoming) >= 2
  /\ env.gpuIncoming[1].kind = env.gpuIncoming[2].kind
  /\ env.gpuIncoming[1].kind # "LaunchKernelRsp"
  /\ env.gpuIncoming[1].src # env.gpuIncoming[2].src

AcksCommute ==
  TwoAcksWait =>
    LET st == [d |-> d, env |-> env, h |-> h]
        orders == MapOrders(findRequestingGPUs(Cur.map))
    IN \A o1, o2 \in orders : TwoTicks(st, o1, o2) = TwoTicks(Swapped(st), o1, o2)

\* C4: a request of a phase exists only once every ack of the phase before
\* it has been handled, and handling two acks of a phase in either order
\* gives the same state.
C4_PhasesSequential ==
  /\ \A kind \in MigKinds \ {"RDMADrain"} :
       (Handling /\ Created(kind) > 0) => PhaseAcked(PrevPhase(kind))
  /\ AcksCommute

\* the RDMA restarts were created, and two acks of a phase wait
C4_Witness ==
  \/ /\ Handling
     /\ Created("RDMARestart") > 0
     /\ TotalPages(Cur) = 2
  \/ /\ TwoAcksWait
     /\ env.gpuIncoming[1].kind = "ShootDownCompleteRsp"

\* C5 as claimed: a migration is the one being handled from its acceptance
\* until its MMU response is sent, and no longer once the response is sent.
C5_ResponseEndsMigration ==
  \A m \in 1..h.accepted :
     (Handling /\ Cur.id = m) <=> m \notin env.mmuReceived

\* C6 as claimed: the messages of a migration are sent phase after phase,
\* and its MMU response after its RDMA restarts.
C6_SendOrder ==
  Handling =>
    /\ \A kind \in MigKinds \ {"RDMADrain"} :
         h.sent[kind] > 0 =>
            h.sent[PrevPhase(kind)] = Fanout(PrevPhase(kind), Cur)
    /\ Cur.id \in env.mmuReceived => h.sent["RDMARestart"] = NumGPUs

\* C7: when a phase has been entered and none of its acks handled, the
\* counter of the phase before it is 0 and its own counter is the number of
\* its requests, which is the size of its fanout.
C7_CountersAtTransition ==
  \A kind \in MigKinds :
     (Entered(kind) /\ h.acked[kind] = 0) =>
        /\ Counter(PrevPhase(kind)) = 0
        /\ Counter(kind) = Pending(kind)
        /\ Counter(kind) = Fanout(kind, Cur)

\* the second migration enters its GPU-restart phase with one accessing GPU
C7_Witness ==
  /\ h.accepted = 2
  /\ Entered("GPURestart")
  /\ h.acked["GPURestart"] = 0
  /\ Len(Cur.accessing) = 1

\* C8: at most one PageMigrationReqToCP is in flight, and
\* isCurrentlyMigratingOnePage holds exactly when one is.
C8_OnePageInFlight ==
  /\ InFlight("PageMigration") <= 1
  /\ d.isCurrentlyMigratingOnePage <=> InFlight("PageMigration") = 1

\* the second page is in flight after the answer to the first
C8_Witness ==
  /\ h.acked["PageMigration"] = 1
  /\ InFlight("PageMigration") = 1

\* C9: the MMU response of the migration being handled is prepared, and its
\* GPU restarts exist, only once the answer for each of its pages was handled.
C9_RestartAfterAllPages ==
  (Handling /\ (Cur.id \in h.prepared \/ Cur.id \in env.mmuReceived
                \/ Created("GPURestart") > 0)) =>
     /\ TotalPages(Cur) > 0
     /\ h.acked["PageMigration"] = TotalPages(Cur)

\* the response of a migration of two pages is prepared
C9_Witness ==
  /\ Handling
  /\ Cur.id \in h.prepared
  /\ TotalPages(Cur) = 2

\* C10: a response waiting to be sent to the MMU lists the v-addresses of
\* the map of its request, each as often as the map does, echoes the
\* request's respond-to-top flag, comes from the driver's MMU port and goes
\* to the source of the request.
C10_ResponseContent ==
  d.toSendToMMU # NoRsp =>
    LET rsp == d.toSendToMMU
        req == h.reqs[rsp.rspTo]
    IN /\ rsp.rspTo \in 1..Len(h.reqs)
       /\ SameElements(rsp.vAddrs, AllVAddrs(req.map))
       /\ rsp.rspToTop = req.respondToTop
       /\ rsp.src = DriverMMUPort
       /\ rsp.dst = req.src

\* the response to a request of two GPUs waits, with respond-to-top unset
C10_Witness ==
  /\ d.toSendToMMU # NoRsp
  /\ Cardinality(DOMAIN h.reqs[d.toSendToMMU.rspTo].map) = 2
  /\ Len(d.toSendToMMU.vAddrs) = 2
  /\ ~d.toSendToMMU.rspToTop

\* ------------------------------------------------------------ GPU port
\* the step is a Tick: the host, the MMU and the GPUs have done nothing
TickStep ==
  /\ env'.numEnqueued = env.numEnqueued
  /\ env'.numMigReqs = env.numMigReqs
  /\ Len(env'.gpuIncoming) <= Len(env.gpuIncoming)

\* the requests of requestsToSend that the step hands to the GPU port
Delivered ==
  {m \in env'.gpuInflight \ env.gpuInflight : m.kind # "PageMigration"}

C11_Step ==
  LET rts == d.requestsToSend
  IN IF TickStep /\ rts # <<>>
     THEN \/ /\ Delivered = {Head(rts)}
             /\ IsPrefix(Tail(rts), d'.requestsToSend)
             /\ h'.returned.sendToGPUs
          \/ /\ Delivered = {}
             /\ IsPrefix(rts, d'.requestsToSend)
             /\ ~h'.returned.sendToGPUs
     ELSE /\ Delivered = {}
          /\ IsPrefix(rts, d'.requestsToSend)
          /\ TickStep => ~h'.returned.sendToGPUs

\* C11: a step hands at most the head of requestsToSend to the GPU port and
\* then removes exactly it; otherwise the buffer keeps every request, in
\* order, with the same head, and sendToGPUs returns false; requests are
\* only added at the end.
C11_SendKeepsOrder == [][C11_Step]_vars

\* the send of the second RDMA drain has failed after the first was sent
C11_Witness ==
  /\ ~h.returned.sendToGPUs
  /\ d.requestsToSend # <<>>
  /\ Head(d.requestsToSend).kind = "RDMADrain"
  /\ h.sent["RDMADrain"] = 1
  /\ \E m \in env.gpuInflight : m.kind = "RDMADrain"

\* ------------------------------------------------------ launch round trip
\* the messages that carry launch request r: the request on its way to the
\* GPU or at the GPU, and the response on its way back
Carrying(r) ==
  Cardinality({i \in 1..Len(d.requestsToSend) :
                 /\ d.requestsToSend[i].kind = "LaunchKernelReq"
                 /\ d.requestsToSend[i].id = r})
  + Cardinality({m \in env.gpuInflight :
                   m.kind = "LaunchKernelReq" /\ m.id = r})
  + Cardinality({i \in 1..Len(env.gpuIncoming) :
                   /\ env.gpuIncoming[i].kind = "LaunchKernelRsp"
                   /\ env.gpuIncoming[i].rspTo = r})

\* the commands that are in a queue
QueuedCmds ==
  UNION {{d.queues[q].commands[i].id : i \in 1..Len(d.queues[q].commands)} :
           q \in QueueIDs}

C12_Inv ==
  /\ \A c \in 1..MaxCmds : \A r \in h.issued[c] :
       /\ r \in h.answered => Carrying(r) = 0
       /\ r \notin h.answered => Carrying(r) = 1 /\ c \in QueuedCmds
  /\ \A q \in QueueIDs :
       LET cmds == d.queues[q].commands
       IN Len(cmds) > 0 =>
            /\ Range(cmds[1].reqs) = Outstanding(cmds[1].id)
            /\ Len(cmds[1].reqs) = Cardinality(Outstanding(cmds[1].id))

\* the Tick that starts in this state handles a launch response
LaunchRspAtHead ==
  /\ ~d.panicked
  /\ env.gpuIncoming # <<>>
  /\ Head(env.gpuIncoming).kind = "LaunchKernelRsp"

C12_Step ==
  IF TickStep /\ LaunchRspAtHead /\ h'.answered # h.answered
  THEN LET r == Head(env.gpuIncoming).rspTo
           q == CHOOSE q \in QueueIDs :
                  /\ Len(d.queues[q].commands) > 0
                  /\ r \in Range(d.queues[q].commands[1].reqs)
           cmd == d.queues[q].commands[1]
           left == SelectSeq(cmd.reqs, LAMBDA x : x # r)
       IN /\ h'.answered = h.answered \cup {r}
          /\ r \notin h.answered
          /\ IF left = <<>>
             THEN IsPrefix(Append(h.dequeuedLog[q], cmd.id), h'.dequeuedLog[q])
             ELSE /\ h'.dequeuedLog[q] = h.dequeuedLog[q]
                  /\ d'.queues[q].IsRunning
                  /\ d'.queues[q].commands[1].id = cmd.id
                  /\ d'.queues[q].commands[1].reqs = left
  ELSE h'.answered = h.answered

\* C12: a launch request that was created is carried by exactly one message
\* until its response is handled and by none after; handling the response
\* with RspTo = r removes exactly r from the requests of its command; the
\* command is dequeued in that step if no request is left, and stays at the
\* head of its running queue otherwise.
C12_LaunchRoundTrip == []C12_Inv /\ [][C12_Step]_vars

\* one of the two requests of a command was answered, the other is at a GPU
C12_Witness ==
  \E q \in QueueIDs :
     /\ Len(d.queues[q].commands) > 0
     /\ LET c == d.queues[q].commands[1].id
        IN /\ Cardinality(h.issued[c]) = 2
           /\ Cardinality(h.issued[c] \cap h.answered) = 1
           /\ \E m \in env.gpuInflight : m.id \in h.issued[c]

\* ------------------------------------------------------- unified launch
\* the least k with k * b >= a
CeilDiv(a, b) == CHOOSE k \in 0..a : k * b >= a /\ \A j \in 0..a : j * b >= a => k <= j

\* num_wg of a packet
NumWGOf(pkt) ==
  CeilDiv(pkt.GridSize[1], pkt.WorkgroupSize[1])
  * CeilDiv(pkt.GridSize[2], pkt.WorkgroupSize[2])
  * CeilDiv(pkt.GridSize[3], pkt.WorkgroupSize[3])

\* the workgroups of a packet, as <<IDX, IDY, IDZ>>
WorkGroups(pkt) ==
  (0..CeilDiv(pkt.GridSize[1], pkt.WorkgroupSize[1]) - 1)
  \X (0..CeilDiv(pkt.GridSize[2], pkt.WorkgroupSize[2]) - 1)
  \X (0..CeilDiv(pkt.GridSize[3], pkt.WorkgroupSize[3]) - 1)

\* the row-major flattened id of a workgroup
RowMajor(pkt, wg) ==
  LET nx == CeilDiv(pkt.GridSize[1], pkt.WorkgroupSize[1])
      ny == CeilDiv(pkt.GridSize[2], pkt.WorkgroupSize[2])
  IN wg[3] * nx * ny + wg[2] * nx + wg[1]

\* the unified launches that have been started
StartedUnified ==
  {c \in 1..MaxCmds : /\ h.cmdType[c] = "LaunchUnifiedMultiGPUKernel"
                      /\ h.launched[c] # <<>>}

\* the members of the unified device, in order
Members == d.devices[UnifiedDeviceID].UnifiedGPUIDs

MemberCU(i) == d.devices[Members[i + 1]].CUCount

TotalCU == SumCUCount(d, Members)

\* C13: for every unified launch that was started, the boundaries wgDist
\* start at 0, never decrease from member to member and end at num_wg or
\* above; and every workgroup of the grid is accepted by the filter of
\* exactly one of the requests issued, the one of the member whose range
\* holds the workgroup's row-major id, addressed to that member.
C13_FiltersPartition ==
  \A c \in StartedUnified :
     LET reqs == h.launched[c]
         pkt == reqs[1].packet
         wgDist == reqs[1].wgDist
         k == Len(Members)
     IN /\ DOMAIN wgDist = 0..k
        /\ wgDist[0] = 0
        /\ \A i \in 0..k - 1 : wgDist[i] <= wgDist[i + 1]
        /\ wgDist[k] >= NumWGOf(pkt)
        /\ \A j \in 1..Len(reqs) : reqs[j].wgDist = wgDist /\ reqs[j].packet = pkt
        /\ \A wg \in WorkGroups(pkt) :
             LET accepting == {j \in 1..Len(reqs) : WGFilter(reqs[j], pkt, wg)}
                 id == RowMajor(pkt, wg)
             IN /\ id \in 0..NumWGOf(pkt) - 1
                /\ Cardinality(accepting) = 1
                /\ \A j \in accepting :
                     /\ wgDist[reqs[j].gpuIndex] <= id
                     /\ id < wgDist[reqs[j].gpuIndex + 1]
                     /\ reqs[j].dst = GPUs(Members[reqs[j].gpuIndex + 1] - 1)

\* a launch of 2 x 2 x 2 workgroups on members with different CU counts
C13_Witness ==
  \E c \in StartedUnified :
     /\ Len(h.launched[c]) = 2
     /\ h.launched[c][1].packet.GridSize = <<4, 4, 2>>
     /\ MemberCU(0) # MemberCU(1)

\* C14: for every unified launch that was started, wgDist[0] = 0 and the
\* range of member i has cu_count(i) * ceil(num_wg / total cu_count)
\* workgroups; 8 workgroups on CU counts 1 and 3 give the boundaries 0, 2, 8
\* and on CU counts 2 and 2 the boundaries 0, 4, 8.
C14_Distribution ==
  \A c \in StartedUnified :
     LET wgDist == h.launched[c][1].wgDist
         numWG == NumWGOf(h.launched[c][1].packet)
         k == Len(Members)
     IN /\ wgDist[0] = 0
        /\ \A i \in 0..k - 1 :
             wgDist[i + 1] - wgDist[i] = MemberCU(i) * CeilDiv(numWG, TotalCU)
        /\ (k = 2 /\ numWG = 8 /\ MemberCU(0) = 1 /\ MemberCU(1) = 3) =>
              wgDist = (0 :> 0 @@ 1 :> 2 @@ 2 :> 8)
        /\ (k = 2 /\ numWG = 8 /\ MemberCU(0) = 2 /\ MemberCU(1) = 2) =>
              wgDist = (0 :> 0 @@ 1 :> 4 @@ 2 :> 8)

\* 8 workgroups were distributed to members with CU counts 1 and 3
C14_Witness ==
  \E c \in StartedUnified :
     /\ NumWGOf(h.launched[c][1].packet) = 8
     /\ Len(Members) = 2
     /\ MemberCU(0) = 1
     /\ MemberCU(1) = 3

\* the members of the unified device with a range that is not empty, as
\* indices from 0, in member order
MembersWithWork(pkt) ==
  LET all == [i \in 1..Len(Members) |-> i - 1]
  IN SelectSeq(all, LAMBDA i : MemberCU(i) * CeilDiv(NumWGOf(pkt), TotalCU) > 0)

\* the queue that holds command c at its head
AtHead(c) ==
  {q \in QueueIDs : /\ Len(d.queues[q].commands) > 0
                    /\ d.queues[q].commands[1].id = c}

\* C15: a unified launch that was started has issued one request for each
\* member with a non-empty range, in member order, each addressed to its
\* member; while one of them is unanswered the command is at the head of
\* its queue, which is running, and it is dequeued only with all answered.
C15_UnifiedCompletion ==
  \A c \in StartedUnified :
     LET reqs == h.launched[c]
         withWork == MembersWithWork(reqs[1].packet)
     IN /\ Len(reqs) = Len(withWork)
        /\ \A j \in 1..Len(reqs) :
             /\ reqs[j].gpuIndex = withWork[j]
             /\ reqs[j].dst = GPUs(Members[withWork[j] + 1] - 1)
             /\ reqs[j].id \in h.issued[c]
        /\ Cardinality(h.issued[c]) = Len(reqs)
        /\ Outstanding(c) # {} =>
             /\ c \notin DequeuedCmds
             /\ AtHead(c) # {}
             /\ \A q \in AtHead(c) : d.queues[q].IsRunning
        /\ Outstanding(c) = {} => c \in DequeuedCmds

\* the response of the second member was handled before that of the first
C15_Witness ==
  \E c \in StartedUnified :
     /\ Len(h.launched[c]) = 2
     /\ h.launched[c][2].id \in h.answered
     /\ h.launched[c][1].id \notin h.answered
     /\ \A q \in AtHead(c) : d.queues[q].IsRunning

\* ------------------------------------------- commands during a migration
\* queue q has no command and is not running
IdleQueue(q) == d.queues[q].commands = <<>> /\ ~d.queues[q].IsRunning

\* command c of the given type on queue q has been started in state st
StartedIn(st, q, c, type) ==
  IF type = "Noop"
  THEN c \in Range(st.h.dequeuedLog[q])
  ELSE /\ st.h.issued[c] # {}
       /\ st.d.queues[q].IsRunning
       /\ \E i \in 1..Len(st.d.requestsToSend) :
            st.d.requestsToSend[i].id \in st.h.issued[c]

\* C16: whenever a migration is being handled and the host puts a command
\* on an idle queue, the next Tick starts the command, whatever the ports
\* accept; and that Tick takes nothing from the MMU port and accepts no
\* request unless it ends the migration.
C16_MigrationDoesNotBlock ==
  (Handling /\ ~d.panicked /\ env.numEnqueued < MaxCmds) =>
     \A q \in {r \in QueueIDs : IdleQueue(r)}, type \in {"Noop", "LaunchKernel"} :
        LET c == env.numEnqueued + 1
            st0 == EnqueueCmd([d |-> d, env |-> env, h |-> h], q, type, NoPacket)
        IN \A gpuOK, mmuOK, cpOK \in BOOLEAN :
             \A order \in MapOrders(findRequestingGPUs(Cur.map)) :
                LET st1 == TickResult(st0, gpuOK, mmuOK, cpOK, order)
                IN /\ StartedIn(st1, q, c, type)
                   /\ st1.h.completed = h.completed =>
                        /\ st1.env.mmuIncoming = env.mmuIncoming
                        /\ st1.h.accepted = h.accepted
                        /\ st1.d.currentPageMigrationReq = Cur

\* a launch was admitted after the RDMA drains of the migration were
\* created: its request is behind one of them in requestsToSend
C16_Witness ==
  /\ Handling
  /\ \E i, j \in 1..Len(d.requestsToSend) :
       /\ i < j
       /\ d.requestsToSend[i].kind = "RDMADrain"
       /\ d.requestsToSend[j].kind = "LaunchKernelReq"

\* ------------------------------------------------------- queue progress
\* the launch requests of command c that a GPU has received
Received(c) ==
  {r \in h.issued[c] : r \in h.answered \/ \E m \in env.gpuInflight : m.id = r}

C17_Safe ==
  /\ \A q \in QueueIDs : \A c \in Range(h.enqueuedLog[q]) :
       /\ h.cmdType[c] = "Noop" => h.launched[c] = <<>>
       /\ h.cmdType[c] = "LaunchKernel" =>
            /\ Len(h.launched[c]) <= 1
            /\ \A j \in 1..Len(h.launched[c]) :
                 h.launched[c][j].dst = GPUs(d.queues[q].GPUID - 1)
            /\ c \in Range(h.dequeuedLog[q]) =>
                 /\ Len(h.launched[c]) = 1
                 /\ Received(c) = {h.launched[c][1].id}
  /\ (\E c \in 1..MaxCmds : h.issued[c] # {}) => d.l2Dirty

\* C17: under the fairness of SpecQueues every queue is empty again and
\* again, so every command enqueued is dequeued; a Noop never has a launch
\* request, a LaunchKernel command that was dequeued had exactly one, which
\* its GPU received, addressed to GPUs[GPUID-1] of its queue; and l2Dirty
\* holds once a launch has started.
C17_QueueDrains ==
  /\ []C17_Safe
  /\ \A q \in QueueIDs : []<>(d.queues[q].commands = <<>>)

\* a Noop and then a launch were enqueued on the first queue, both are done
C17_Witness ==
  /\ h.dequeuedLog[1] = <<1, 2>>
  /\ h.cmdType[1] = "Noop"
  /\ h.cmdType[2] = "LaunchKernel"
  /\ d.queues[1].commands = <<>>
  /\ d.l2Dirty

\* ------------------------------------------------------------ engine runs
\* the runEngine threads that are at one of these places
ThreadsAt(places) == {r \in 1..MaxSignals : env.runEngine[r] \in places}

C18_Inv ==
  /\ Cardinality(ThreadsAt({"run"})) <= 1
  /\ Cardinality(ThreadsAt({"run", "lockFlag", "clear", "unlockFlag",
                            "unlockEngine"})) <= 1
  /\ \A r \in ThreadsAt({"run", "lockFlag", "clear", "unlockFlag",
                          "unlockEngine"}) : d.engineMutex = EngineThread(r)
  /\ ThreadsAt({"lockEngine", "run"}) # {} => d.engineRunning
  /\ env.runAsync \in {"check", "go", "unlock"} =>
       d.engineRunningMutex = BridgeThread

C18_Step ==
  /\ (env.runAsync = "check" /\ env'.runAsync = "go") =>
       /\ ~d.engineRunning
       /\ d.engineRunningMutex = BridgeThread
  /\ ThreadsAt({"none"}) # ThreadsAt({"none"})' =>
       /\ env.runAsync = "go"
       /\ d.engineRunningMutex = BridgeThread
       /\ ThreadsAt({"lockEngine", "run", "lockFlag", "clear"}) = {}

\* C18: at most one thread executes Engine.Run, and at most one is between
\* engineMutex.Lock and its Unlock; the bridge thread reads engineRunning
\* holding engineRunningMutex and starts a runEngine thread only if it read
\* false, when no other thread is about to run or running the engine.
C18_OneEngineRun == []C18_Inv /\ [][C18_Step]_vars

\* a new runEngine thread waits for engineMutex, which the thread before it
\* still holds after it has cleared engineRunning
C18_Witness ==
  /\ ThreadsAt({"unlockEngine"}) # {}
  /\ ThreadsAt({"lockEngine"}) # {}

\* ---------------------------------------------------------------- C19
\* the pages a migration request asks to move
Touched(req) == Range(AllVAddrs(req.map))

\* the step that ends phase 5: the last RDMA-restart ack is processed
EndsMigration == h'.completed = h.completed + 1

\* C19: when phase 5 of a migration ends, every page the migration touched
\* has is_migrating = false in the page table
C19_Step ==
  EndsMigration =>
    \A v \in Touched(Cur) : ~d'.pageTable[v].IsMigrating

C19_PagesSettled == [][C19_Step]_vars

\* a migration is over and a page it moved lives on GPU 2, not migrating
C19_Witness ==
  /\ h.completed >= 1
  /\ ~Handling
  /\ \E v \in VAddrs : /\ d.pageTable[v].DeviceID = 2
                        /\ d.pageTable[v].PAddr > NumVAddrs
                        /\ ~d.pageTable[v].IsMigrating

\* ---------------------------------------------------------------- C20
\* the page-migration requests the driver holds for the command processors
MigrationReqs == d.migrationReqToSendToCP

\* every PageMigrationReqToCP of a migration is routed to the command
\* processor of the current host GPU of the page, names the PMC port of the
\* current host GPU and carries the page size of the MMU request
C20_RoutedToHostCP ==
  \A i \in 1..Len(MigrationReqs) :
     /\ MigrationReqs[i].dst = GPUs(Cur.host - 1)
     /\ MigrationReqs[i].pmc = RemotePMCPorts(Cur.host - 1)
     /\ MigrationReqs[i].pageSize = Cur.pageSize

\* the step that ends the shootdown phase and creates the requests
CreatesMigrationReqs ==
  /\ d.migrationReqToSendToCP = <<>>
  /\ d'.migrationReqToSendToCP # <<>>

\* the pages requesting GPU k (1-based key of GPUReqToVAddrMap) asks for
PagesAskedBy(req, k) ==
  IF k \in DOMAIN req.map THEN Len(req.map[k]) ELSE 0

\* C20: every PageMigrationReqToCP of a migration is routed to the command
\* processor of the requesting GPU the page moves to, one request per page
\* that GPU asks for, names the PMC port of the current host GPU and carries
\* the page size of the MMU request
C20_Step ==
  CreatesMigrationReqs =>
    LET reqs == d'.migrationReqToSendToCP
        cur == d'.currentPageMigrationReq
    IN /\ \A i \in 1..Len(reqs) :
             /\ reqs[i].kind = "PageMigration"
             /\ reqs[i].pmc = RemotePMCPorts(cur.host - 1)
             /\ reqs[i].pageSize = cur.pageSize
       /\ \A k \in GPUIDs :
             Cardinality({i \in 1..Len(reqs) : reqs[i].dst = GPUs(k - 1)})
               = PagesAskedBy(cur, k)

C20_RoutedToRequestingCP == [][C20_Step]_vars

\* a request for a page hosted by GPU 1 waits for the CP of GPU 2
C20_Witness ==
  /\ Handling
  /\ Cur.host = 1
  /\ \E i \in 1..Len(MigrationReqs) :
        /\ MigrationReqs[i].dst = GPUs(1)
        /\ MigrationReqs[i].pmc = RemotePMCPorts(0)
        /\ MigrationReqs[i].pageSize = PageSize

\* ---------------------------------------------------------------- C21
\* the head of the GPU port's buffer is a launch response whose RspTo is
\* the id of no request of the command at the head of any queue
UnmatchedLaunchRsp ==
  /\ env.gpuIncoming # <<>>
  /\ env.gpuIncoming[1].kind = "LaunchKernelRsp"
  /\ \A q \in QueueIDs :
        \/ d.queues[q].commands = <<>>
        \/ \A i \in 1..Len(d.queues[q].commands[1].reqs) :
              d.queues[q].commands[1].reqs[i] # env.gpuIncoming[1].rspTo

\* C21: the Tick that takes a LaunchKernelRsp matching no outstanding
\* request of a head command aborts the simulation and leaves the running
\* flag and the command list of every queue as they were
C21_Step ==
  (UnmatchedLaunchRsp /\ TickStep) =>
     /\ d'.panicked
     /\ d'.queues = d.queues

C21_UnknownRspAborts == [][C21_Step]_vars

\* the simulation was aborted by a stray response while a kernel ran
C21_Witness ==
  /\ d.panicked
  /\ env.numStray = 1
  /\ \E q \in QueueIDs : d.queues[q].IsRunning

\* ---------------------------------------------------------------- C22
\* the host thread is inside its enqueue, holding the queue lock
HostEnqueueing == env.hostPC \in {"append", "unlock"}

\* the engine thread is between the statements that complete a command
EngineCompleting == env.tickPC \in {"RemoveReq", "GetReqs", "IsRunning", "Dequeue"}

\* C22 as claimed: a step that changes the command list or the running flag
\* of a queue is taken by a thread that holds the queue lock of the context,
\* so the host thread is never inside an enqueue while the engine thread
\* completes a command.
C22_Step ==
  /\ d'.queues # d.queues => (d.queueMutex # Unlocked /\ d'.queueMutex = d.queueMutex)
  /\ ~(HostEnqueueing' /\ EngineCompleting')

\* C22 as claimed, of every step of the host thread and the engine thread
C22_QueuesUnderLock == [][C22_Step]_vars

\* ---------------------------------------------------------------- C23
\* the present state as a record
Now == [d |-> d, env |-> env, h |-> h]

\* the map orders of the migration that is handled
Orders == MapOrders(findRequestingGPUs(d.currentPageMigrationReq.map))

\* what waits at the head of the three outbound buffers before a step
HeadsToSend ==
  (IF d.requestsToSend = <<>> THEN {} ELSE {d.requestsToSend[1]})
  \cup (IF d.migrationReqToSendToCP = <<>> THEN {}
        ELSE {d.migrationReqToSendToCP[1]})

\* a step that handles the last response of the command at the head of a
\* queue on which a further command waits
FreesQueue(q) ==
  /\ TickStep
  /\ Len(d.queues[q].commands) >= 2
  /\ d.queues[q].IsRunning
  /\ Len(env'.gpuIncoming) < Len(env.gpuIncoming)
  /\ env.gpuIncoming[1].kind = "LaunchKernelRsp"
  /\ d.queues[q].commands[1].reqs = <<env.gpuIncoming[1].rspTo>>

\* what a Tick leaves outside the driver and its ports untouched: the record
\* of the run apart
Changes(st) == st.d # d \/ st.env # env

\* C23 (sends first): what a Tick hands to the GPU port or to the MMU was at
\* the head of an outbound buffer before the Tick, so nothing produced by
\* handling a response, admitting a command or parsing an MMU message in a
\* Tick is sent in that Tick; a response is handled before commands are
\* admitted, so the queue it frees starts its next command in the same Tick
C23_Step ==
  TickStep =>
    /\ env'.gpuInflight \ env.gpuInflight \subseteq HeadsToSend
    /\ env'.mmuReceived \ env.mmuReceived \subseteq
         (IF d.toSendToMMU = NoRsp THEN {} ELSE {d.toSendToMMU.rspTo})
    /\ \A q \in QueueIDs :
         FreesQueue(q) =>
           LET next == d.queues[q].commands[2]
           IN \/ h'.issued[next.id] # {}
              \/ next.id \in Range(h'.dequeuedLog[q])
              \/ <<next.id, 1>> \in Range(h'.offered)

\* C23 (return value): a Tick returns true exactly when one of its sub-steps
\* has sent, taken or started something, which is when it changes the driver
\* or a port
C23_Returns ==
  ~d.panicked =>
    \A gpuOK \in BOOLEAN, mmuOK \in BOOLEAN, cpOK \in BOOLEAN, order \in Orders :
       madeProgress(Now, gpuOK, mmuOK, cpOK, order)
         <=> Changes(TickResult(Now, gpuOK, mmuOK, cpOK, order))

Acceptors(type) ==
  {i \in 1..Len(d.middlewares) : type \in d.middlewares[i].accepts}

\* the last middleware a command of the type is offered to
LastOffered(type) ==
  IF Acceptors(type) = {} THEN Len(d.middlewares)
  ELSE CHOOSE i \in Acceptors(type) : \A j \in Acceptors(type) : i <= j

\* queue q is idle and its head is a command left to the middlewares
ExtensionAtHead(q) ==
  /\ d.queues[q].commands # <<>>
  /\ ~d.queues[q].IsRunning
  /\ d.queues[q].commands[1].type \in ExtensionTypes

\* the offers of command c made in the step, in the order they were made
OffersOf(c) == SelectSeq(h'.offered, LAMBDA o : o[1] = c)

\* nothing but commands that no middleware accepts is left to do
OnlyRefusedCommands ==
  /\ d.requestsToSend = <<>>
  /\ env.gpuIncoming = <<>>
  /\ \A i \in 1..Len(d.middlewares) : d.middlewares[i].jobs = {}
  /\ \A q \in QueueIDs :
        \/ d.queues[q].commands = <<>>
        \/ d.queues[q].IsRunning
        \/ ExtensionAtHead(q) /\ Acceptors(d.queues[q].commands[1].type) = {}

\* C27: in a Tick, the extension command at the head of an idle queue is
\* offered to the middlewares in registration order up to the first that
\* accepts it and to none after it; if none accepts it, the queue is left as
\* it is, with the command at its head, and admission makes no progress
C27_Step ==
  TickStep =>
    /\ \A q \in QueueIDs :
         ExtensionAtHead(q) =>
           LET cmd == d.queues[q].commands[1]
               last == LastOffered(cmd.type)
           IN /\ OffersOf(cmd.id) = [i \in 1..last |-> <<cmd.id, i>>]
              /\ Acceptors(cmd.type) = {} => d'.queues[q] = d.queues[q]
              /\ Acceptors(cmd.type) # {} =>
                    /\ d'.queues[q].IsRunning
                    /\ d'.queues[q].commands[1] = cmd
    /\ OnlyRefusedCommands =>
         /\ d' = d
         /\ ~madeProgress(Now, TRUE, TRUE, TRUE, <<>>)

C27_FirstAcceptorWins == [][C27_Step]_vars

\* the first middleware has refused a command and the second has taken it
C27_Witness ==
  \E q \in QueueIDs :
     /\ q \in d.middlewares[NumMiddlewares].jobs
     /\ d.queues[q].IsRunning
     /\ Len(h.offered) >= NumMiddlewares
     /\ h.offered[NumMiddlewares] = <<d.queues[q].commands[1].id, NumMiddlewares>>

\* ---------------------------------------------------------------- C24
\* the commands of queue q that the step starts: they get their first
\* request or, being a Noop, leave the queue
StartedInStep(q) ==
  {c \in Range(h.enqueuedLog[q]) :
     /\ h.issued[c] = {}
     /\ c \notin Range(h.dequeuedLog[q])
     /\ h'.issued[c] # {} \/ c \in Range(h'.dequeuedLog[q])}

\* the buffer after the step is the buffer before it, or its tail
AtMostHeadTaken(before, after) ==
  \/ after = before
  \/ before # <<>> /\ after = Tail(before)

\* C24: a Tick sends at most one message of requestsToSend, at most one
\* PageMigrationReqToCP and at most one MMU response, takes at most one GPU
\* response and at most one MMU message, and starts at most one command per
\* queue, so the command behind a dequeued Noop waits for the next Tick
C24_Step ==
  TickStep =>
    /\ Cardinality(Delivered) <= 1
    /\ Cardinality({m \in env'.gpuInflight \ env.gpuInflight :
                      m.kind = "PageMigration"}) <= 1
    /\ \E rest \in {d.requestsToSend} \cup
                    (IF d.requestsToSend = <<>> THEN {}
                     ELSE {Tail(d.requestsToSend)}) :
          IsPrefix(rest, d'.requestsToSend)
    /\ Cardinality(env'.mmuReceived \ env.mmuReceived) <= 1
    /\ AtMostHeadTaken(env.gpuIncoming, env'.gpuIncoming)
    /\ AtMostHeadTaken(env.mmuIncoming, env'.mmuIncoming)
    /\ h'.accepted <= h.accepted + 1
    /\ \A q \in QueueIDs : Cardinality(StartedInStep(q)) <= 1

C24_BoundedWork == [][C24_Step]_vars

\* a Noop has left a queue and the command behind it has not been started
C24_Witness ==
  \E q \in QueueIDs :
     /\ Len(h.dequeuedLog[q]) = 1
     /\ h.cmdType[h.dequeuedLog[q][1]] = "Noop"
     /\ d.queues[q].commands # <<>>
     /\ h.enqueuedLog[q][2] = d.queues[q].commands[1].id
     /\ h.issued[d.queues[q].commands[1].id] = {}
     /\ ~d.queues[q].IsRunning
     /\ env.numMigReqs > 0

\* ---------------------------------------------------------------- C25
\* the GPUs (1-based keys of GPUReqToVAddrMap) that ask for page v
Askers(req, v) ==
  {g \in DOMAIN req.map \cap GPUIDs : v \in Range(req.map[g])}

\* the pages asked for by the GPUs of the driver, and how often in all
AskedPages(req) == {v \in VAddrs : Askers(req, v) # {}}

NumAsked(req) ==
  LET keys == Ascending(DOMAIN req.map \cap GPUIDs)
  IN Len(Flatten([k \in 1..Len(keys) |-> req.map[keys[k]]]))

\* C25: the step that ends the shootdown phase gives every page some GPU g
\* asks for a newly allocated page on device g with IsMigrating set, and
\* queues one PageMigrationReqToCP per key and v-address: it reads from the
\* p-address the entry held before its update and writes to the new page
C25_Step ==
  CreatesMigrationReqs =>
    LET reqs == d'.migrationReqToSendToCP
        cur == d.currentPageMigrationReq
        Fresh(p) == p >= d.nextPAddr
    IN /\ Len(reqs) = NumAsked(cur)
       /\ d'.numPagesMigratingACK = NumAsked(cur)
       /\ \A i \in 1..Len(reqs) :
             /\ Fresh(reqs[i].wrPAddr)
             /\ \A j \in 1..Len(reqs) :
                   reqs[i].wrPAddr = reqs[j].wrPAddr => i = j
             /\ \/ \E v \in AskedPages(cur) :
                      reqs[i].rdPAddr = d.pageTable[v].PAddr
                \/ \E j \in 1..(i - 1) : reqs[i].rdPAddr = reqs[j].wrPAddr
       /\ \A v \in AskedPages(cur) :
             /\ d'.pageTable[v].DeviceID \in Askers(cur, v)
             /\ d'.pageTable[v].IsMigrating
             /\ Fresh(d'.pageTable[v].PAddr)
             /\ Cardinality({i \in 1..Len(reqs) :
                   reqs[i].rdPAddr = d.pageTable[v].PAddr}) = 1
             /\ Cardinality({i \in 1..Len(reqs) :
                   reqs[i].wrPAddr = d'.pageTable[v].PAddr}) = 1
             /\ Cardinality(Askers(cur, v)) = 1 /\ Count(AllVAddrs(cur.map), v) = 1 =>
                   \E i \in 1..Len(reqs) :
                      /\ reqs[i].rdPAddr = d.pageTable[v].PAddr
                      /\ reqs[i].wrPAddr = d'.pageTable[v].PAddr
       /\ \A v \in VAddrs \ AskedPages(cur) : d'.pageTable[v] = d.pageTable[v]

C25_PagesPrepared == [][C25_Step]_vars

\* each GPU has asked for a page: both pages are on new frames of their
\* GPU and migrating, and the two requests wait for the command processors
C25_Witness ==
  /\ Handling
  /\ Len(MigrationReqs) = 2
  /\ d.pageTable[1].DeviceID = 1 /\ d.pageTable[1].IsMigrating
  /\ d.pageTable[2].DeviceID = 2 /\ d.pageTable[2].IsMigrating
  /\ {MigrationReqs[1].wrPAddr, MigrationReqs[2].wrPAddr}
       = {d.pageTable[1].PAddr, d.pageTable[2].PAddr}

\* ---------------------------------------------------------------- C26
\* the shootdown commands among the requests of a buffer
Shootdowns(buffer) == SelectSeq(buffer, LAMBDA m : m.kind = "Shootdown")

\* the step that handles the last RDMA-drain ack
EndsDrain == Handling /\ h.acked["RDMADrain"] + 1 = NumGPUs
             /\ h'.acked["RDMADrain"] = NumGPUs

\* C26: when the drain phase ends, one shootdown command is queued for each
\* GPU of accessing_gpus and none for any other GPU; each carries the pid of
\* the migration and the same v-address list, which holds every v-address
\* of every entry of gpu_to_vaddrs and nothing else
C26_Step ==
  EndsDrain =>
    LET cur == d.currentPageMigrationReq
        cmds == Shootdowns(d'.requestsToSend)
    IN /\ Shootdowns(d.requestsToSend) = <<>>
       /\ \A g \in GPUIDs :
             Cardinality({i \in 1..Len(cmds) : cmds[i].dst = GPUs(g - 1)})
               = Count(cur.accessing, g)
       /\ Len(cmds) = Len(cur.accessing)
       /\ d'.numShootDownACK = Len(cur.accessing)
       /\ \A i \in 1..Len(cmds) :
             /\ cmds[i].pid = cur.pid
             /\ cmds[i].vAddrs = cmds[1].vAddrs
             /\ Range(cmds[i].vAddrs) = Range(AllVAddrs(cur.map))
             /\ Len(cmds[i].vAddrs) = TotalPages(cur)

C26_ShootdownFanout == [][C26_Step]_vars

\* GPU 2 alone accesses the two pages that move: it alone has received a
\* shootdown command, which lists both
C26_Witness ==
  /\ Handling
  /\ Cur.accessing = <<2>>
  /\ h.sent["Shootdown"] = 1
  /\ \E m \in env.gpuInflight :
        /\ m.kind = "Shootdown"
        /\ m.dst = GPUs(1)
        /\ m.pid = ProcessPID
        /\ Range(m.vAddrs) = {1, 2}

\* ---------------------------------------------------------------- C28
\* the kinds whose ack counter is not 0
Counting == {kind \in MigKinds : Counter(kind) # 0}

\* C28 (states): each ack counter is the number of requests of its phase
\* that were created and whose ack has not been handled, so it never wraps
\* around; at most one of the five counters is not 0, and none is while no
\* migration is handled
C28_Inv ==
  /\ \A kind \in MigKinds : Counter(kind) = Pending(kind)
  /\ Cardinality(Counting) <= 1
  /\ Handling => \A kind \in MigKinds : Counter(kind) <= Fanout(kind, Cur)
  /\ ~Handling => Counting = {}

\* C28 (steps): a counter falls by one, and only from a value above 0 when
\* an ack of its kind is handled; it rises only from 0, on entry of its phase
C28_Step ==
  \A kind \in MigKinds :
     /\ Counter(kind)' < Counter(kind) =>
           /\ Counter(kind)' = Counter(kind) - 1
           /\ env.gpuIncoming # <<>>
           /\ env.gpuIncoming[1].kind = RspKind(kind)
     /\ Counter(kind)' > Counter(kind) => Counter(kind) = 0
     /\ (TickStep /\ env.gpuIncoming # <<>> /\ ~d.panicked
           /\ env.gpuIncoming[1].kind = RspKind(kind)) => Counter(kind) > 0

\* C28: the five ack counters count the unacknowledged requests of their
\* phase, only decrease within it, never wrap, and at most one is not 0
C28_AckCounters == []C28_Inv /\ [][C28_Step]_vars

\* one of two page acks has been handled: the counter stands at one
C28_Witness ==
  /\ Handling
  /\ TotalPages(Cur) = 2
  /\ h.acked["PageMigration"] = 1
  /\ d.numPagesMigratingACK = 1
  /\ Counting = {"PageMigration"}

\* ---------------------------------------------------------------- C29
\* the response to migration request m waits in toSendToMMU
AwaitsSend(m) == d.toSendToMMU # NoRsp /\ d.toSendToMMU.rspTo = m

\* C29 as claimed: the response prepared for an accepted migration request
\* is never replaced before it is sent; it has reached the MMU or still
\* waits in toSendToMMU, however long the MMU port rejects the send
C29_ResponseNotOverwritten ==
  \A m \in h.prepared : m \in env.mmuReceived \/ AwaitsSend(m)

\* ---------------------------------------------------------------- C30
\* C30 as claimed: no wake-up is lost; the tick an enqueue signal schedules
\* is eventually executed by an engine run, under every interleaving of the
\* bridge thread and the runEngine threads
C30_NoWakeupLost == env.tickScheduled ~> ~env.tickScheduled

\* ---------------------------------------------------------------- C32
PhaseSeq == <<"RDMADrain", "Shootdown", "PageMigration", "GPURestart",
              "RDMARestart">>

\* the v-addresses a request lists for the registered GPUs
PagesOfRegistered(req) ==
  LET keys == Ascending(DOMAIN req.map \cap 1..d.numGPUs)
  IN Flatten([k \in 1..Len(keys) |-> req.map[keys[k]]])

\* the requests a phase of a migration emits, with d.numGPUs GPUs registered
RegisteredFanout(kind, req) ==
  CASE kind \in {"RDMADrain", "RDMARestart"} -> d.numGPUs
    [] kind \in {"Shootdown", "GPURestart"} -> Len(req.accessing)
    [] kind = "PageMigration" -> Len(PagesOfRegistered(req))

\* the first phase of a request whose fanout is zero, 0 if there is none
FirstEmptyPhase(req) ==
  LET empty == {i \in 1..Len(PhaseSeq) : RegisteredFanout(PhaseSeq[i], req) = 0}
  IN IF empty = {} THEN 0 ELSE CHOOSE i \in empty : \A j \in empty : i <= j

\* the accepted requests with a phase of fanout zero
Fruitless == {m \in 1..h.accepted : FirstEmptyPhase(h.reqs[m]) # 0}

\* C32 (states): a request with a phase of fanout zero is being handled in
\* every state after it was accepted, so no later MMU message is parsed; of
\* that phase and the later ones no request exists, no ack was handled and
\* the counter is 0; no response to the request is prepared or sent
C32_Inv ==
  \A m \in Fruitless :
     /\ Handling
     /\ Cur = h.reqs[m]
     /\ m = h.accepted
     /\ Len(env.mmuIncoming) = env.numMigReqs - m
     /\ m \notin h.prepared \cup env.mmuReceived
     /\ ~AwaitsSend(m)
     /\ \A i \in FirstEmptyPhase(Cur)..Len(PhaseSeq) :
           /\ Created(PhaseSeq[i]) = 0
           /\ h.sent[PhaseSeq[i]] = 0
           /\ Counter(PhaseSeq[i]) = 0

\* C32 (steps): while such a request is handled no step ends the migration
\* or takes a message from the MMU port
C32_Step ==
  (Handling /\ FirstEmptyPhase(Cur) # 0) =>
     /\ d'.isCurrentlyHandlingMigrationReq
     /\ d'.currentPageMigrationReq = Cur
     /\ h'.completed = h.completed
     /\ IsPrefix(env.mmuIncoming, env'.mmuIncoming)

\* C32: a migration request whose fanout is zero in some phase never gets
\* past that phase: the phase emits no request and sees no ack, no MMU
\* response is prepared, and the driver handles the request forever, so
\* every later MMU message stays unparsed
C32_ZeroFanoutBlocks == []C32_Inv /\ [][C32_Step]_vars

\* a request that asks for no page has had all its drains and shootdowns
\* acknowledged; nothing is left to send or to answer, and the next request
\* of the MMU waits in the port
C32_Witness ==
  /\ Handling
  /\ d.numGPUs = NumGPUs
  /\ FirstEmptyPhase(Cur) = 3
  /\ h.acked["RDMADrain"] = NumGPUs
  /\ h.acked["Shootdown"] = Len(Cur.accessing)
  /\ d.requestsToSend = <<>>
  /\ env.gpuInflight = {}
  /\ env.gpuIncoming = <<>>
  /\ Len(env.mmuIncoming) = 1

\* ---------------------------------------------------------------- C31
\* migration m is over and the MMU has its response
Completed(m) == h.completed >= m /\ m \in env.mmuReceived

\* between migrations every ack counter is 0 and no PageMigrationReqToCP
\* is queued, at a GPU or answered and not handled
AtRest ==
  ~Handling => /\ \A kind \in MigKinds : Counter(kind) = 0
               /\ Pending("PageMigration") = 0

\* C31 as claimed: when the GPUs answer every request and the ports accept
\* sends again and again, every accepted migration with an accessing GPU
\* and a page to move completes: its MMU response is sent and the driver
\* stops handling it, with all five counters 0 and no PageMigrationReqToCP
\* left
C31_MigrationCompletes ==
  /\ []AtRest
  /\ \A m \in 1..MaxMigrations : (h.accepted >= m) ~> Completed(m)

====
